---- MODULE Spec2Model ----
\* Facet merger and renderer of riotplan-catalyst (merger/facet-merger.ts):
\* mergeCatalysts, renderFacet, renderAllFacets and summarizeMerge, modelled
\* as the code computes them, over bounded lists of loaded catalysts.
EXTENDS Integers, Sequences, FiniteSets, TLC

\* The merger and the renderer.
VARIABLES catalysts, merged, pc, renderedType, rendered, renderedAll, summary

\* The loader: the disk, the last call and what it came to.
VARIABLES disk, call, outcome

\* The schema: a parsed document, whether safeParse has run, and its result.
VARIABLES document, validated, parseResult

\* The plan manifest: plan.yaml, the last call and what it came to.
VARIABLES planFile, planCall, planOutcome

\* The reads of one facet directory: the markdown entries listed, where
\* loadFacetFiles stands, what each read came to, the first read to reject,
\* what loadFacetFiles came to and the facets of loadFacets.
VARIABLES facetEntries, readPc, readState, firstRejected, facetOutcome, facetsStored

\* Two addCatalystToManifest calls on one plan directory: plan.yaml and the
\* locals of each call.
VARIABLES racePlan, adders

mergerVars == <<catalysts, merged, pc, renderedType, rendered, renderedAll, summary>>

loaderVars == <<disk, call, outcome>>

schemaVars == <<document, validated, parseResult>>

planVars == <<planFile, planCall, planOutcome>>

concurrentVars ==
    <<facetEntries, readPc, readState, firstRejected, facetOutcome, facetsStored,
      racePlan, adders>>

vars == <<mergerVars, loaderVars, schemaVars, planVars, concurrentVars>>

-----------------------------------------------------------------------------
\* Bounds of the model.

\* Longest list of catalysts handed to mergeCatalysts.
MaxCatalysts == 3

\* Longest list of identifiers handed to resolveCatalysts.
MaxIdentifiers == 2

\* Most markdown files in the facet directory whose reads are followed.
MaxFiles == 3

-----------------------------------------------------------------------------
\* Constants of the program.

FACET_TYPES ==
    << "questions", "constraints", "outputTemplates",
       "domainKnowledge", "processGuidance", "validationRules" >>

FacetType == { FACET_TYPES[k] : k \in 1..Len(FACET_TYPES) }

-----------------------------------------------------------------------------
\* The inputs: lists of loaded catalysts.

\* Manifest ids of the inputs; both match the id pattern of
\* CatalystManifestSchema, which every loaded manifest has passed.
CatalystId == { "@test/a", "b" }

\* Files of a facet directory (FacetContent); one of them is empty.
FilePool ==
    << [filename |-> "one.md", content |-> "One"],
       [filename |-> "two.md", content |-> ""] >>

\* The "questions" facet of an input: no file (the empty list, which the type
\* allows), the first file, or both files in directory order.
QuestionsLists == { SubSeq(FilePool, 1, n) : n \in 0..Len(FilePool) }

\* The "validationRules" facet of an input: one file.
ValidationRulesLists == { << [filename |-> "rules.md", content |-> "Rules"] >> }

\* CatalystFacets: every category is optional (absent from the domain). The
\* inputs carry content for the first and the last category of FACET_TYPES.
CatalystFacets ==
    { f \in UNION { [S -> QuestionsLists \cup ValidationRulesLists] :
                      S \in SUBSET { "questions", "validationRules" } } :
        /\ "questions" \in DOMAIN f => f["questions"] \in QuestionsLists
        /\ "validationRules" \in DOMAIN f => f["validationRules"] \in ValidationRulesLists }

\* Catalyst, reduced to the fields the merger reads.
Catalyst == [manifest : [id : CatalystId], facets : CatalystFacets]

RECURSIVE SeqsUpTo(_, _)
SeqsUpTo(S, n) ==
    IF n = 0 THEN { <<>> }
    ELSE LET shorter == SeqsUpTo(S, n - 1)
         IN shorter \cup { Append(s, x) : s \in { t \in shorter : Len(t) = n - 1 }, x \in S }

InputLists == SeqsUpTo(Catalyst, MaxCatalysts)

-----------------------------------------------------------------------------
\* JavaScript Map with insertion order: a sequence of <<key, value>> entries.

MapHas(map, key) == \E k \in 1..Len(map) : map[k].key = key

MapGet(map, key) ==
    LET k == CHOOSE k \in 1..Len(map) : map[k].key = key IN map[k].value

\* Variant: a key set again moves to the end.
MapSetMovingToEnd(map, key, value) ==
    Append(SelectSeq(map, LAMBDA entry : entry.key # key),
           [key |-> key, value |-> value])

\* Map.prototype.set: an existing key keeps its position.
MapSet(map, key, value) ==
    IF MapHas(map, key)
    THEN [k \in 1..Len(map) |->
            IF map[k].key = key THEN [key |-> key, value |-> value] ELSE map[k]]
    ELSE Append(map, [key |-> key, value |-> value])

\* Array.prototype.includes
Includes(arr, x) == \E k \in 1..Len(arr) : arr[k] = x

\* Array.prototype.join
RECURSIVE Join(_, _)
Join(arr, sep) ==
    IF Len(arr) = 0 THEN ""
    ELSE IF Len(arr) = 1 THEN arr[1]
    ELSE arr[1] \o sep \o Join(Tail(arr), sep)

-----------------------------------------------------------------------------
\* mergeCatalysts

\* Variant: only the ids of the catalysts that carry a facet.
CatalystIdsOfCarriers(cs) ==
    LET carriers == SelectSeq(cs, LAMBDA c : DOMAIN c.facets # {})
    IN [k \in 1..Len(carriers) |-> carriers[k].manifest.id]

\* catalysts.map(c => c.manifest.id)
CatalystIds(cs) == [k \in 1..Len(cs) |-> cs[k].manifest.id]

\* Variant: the filename is not carried over.
AttributeWithoutFilename(file, id) ==
    [content |-> file.content, sourceId |-> id, filename |-> ""]

\* The AttributedContent pushed for one file.
Attribute(file, id) ==
    [content |-> file.content, sourceId |-> id, filename |-> file.filename]

\* Variant: unshift instead of push, later catalysts land in front.
PushFilesInFront(mergedContent, facetContent, id) ==
    [k \in 1..Len(facetContent) |->
        [content |-> facetContent[k].content, sourceId |-> id,
         filename |-> facetContent[k].filename]] \o mergedContent

\* Variant: a later catalyst replaces the content of the earlier ones.
PushFilesReplacing(mergedContent, facetContent, id) ==
    [k \in 1..Len(facetContent) |->
        [content |-> facetContent[k].content, sourceId |-> id,
         filename |-> facetContent[k].filename]]

\* for (const file of facetContent) mergedContent.push(...)
PushFiles(mergedContent, facetContent, id) ==
    mergedContent \o [k \in 1..Len(facetContent) |-> Attribute(facetContent[k], id)]

\* Variant: the record is created anew on every call, never fetched.
TrackContributionAnew(contributions, id, facetType, count) ==
    MapSet(contributions, id, [facetTypes |-> << facetType >>, contentCount |-> count])

\* "Track contribution": get-or-create, add the facet type once, add the count.
TrackContribution(contributions, id, facetType, count) ==
    LET contrib == IF MapHas(contributions, id)
                   THEN MapGet(contributions, id)
                   ELSE [facetTypes |-> <<>>, contentCount |-> 0]
        types == IF ~Includes(contrib.facetTypes, facetType)
                 THEN Append(contrib.facetTypes, facetType)
                 ELSE contrib.facetTypes
    IN MapSet(contributions, id,
              [facetTypes |-> types, contentCount |-> contrib.contentCount + count])

\* The body of "for (const catalyst of catalysts)" for one catalyst.
CatalystStep(st, catalyst, facetType) ==
    IF facetType \in DOMAIN catalyst.facets /\ Len(catalyst.facets[facetType]) > 0
    THEN [mergedContent |->
              PushFiles(st.mergedContent, catalyst.facets[facetType], catalyst.manifest.id),
          contributions |->
              TrackContribution(st.contributions, catalyst.manifest.id, facetType,
                                Len(catalyst.facets[facetType]))]
    ELSE st

RECURSIVE CatalystLoop(_, _, _, _)
CatalystLoop(st, cs, i, facetType) ==
    IF i > Len(cs) THEN st
    ELSE CatalystLoop(CatalystStep(st, cs[i], facetType), cs, i + 1, facetType)

\* Variant: the list is stored also when it is empty.
StoreFacetAlways(mergedFacets, facetType, mergedContent) ==
    (facetType :> mergedContent) @@ mergedFacets

\* "Only set facet type if there's content"
StoreFacet(mergedFacets, facetType, mergedContent) ==
    IF Len(mergedContent) > 0
    THEN (facetType :> mergedContent) @@ mergedFacets
    ELSE mergedFacets

\* The body of "for (const facetType of FACET_TYPES)" for one facet type.
FacetStep(acc, cs, facetType) ==
    LET st == CatalystLoop([mergedContent |-> <<>>, contributions |-> acc.contributions],
                           cs, 1, facetType)
    IN [mergedFacets |-> StoreFacet(acc.mergedFacets, facetType, st.mergedContent),
        contributions |-> st.contributions]

RECURSIVE FacetLoop(_, _, _)
FacetLoop(acc, cs, f) ==
    IF f > Len(FACET_TYPES) THEN acc
    ELSE FacetLoop(FacetStep(acc, cs, FACET_TYPES[f]), cs, f + 1)

mergeCatalysts(cs) ==
    LET acc == FacetLoop([mergedFacets |-> <<>>, contributions |-> <<>>], cs, 1)
    IN [catalystIds |-> CatalystIds(cs),
        facets |-> acc.mergedFacets,
        contributions |-> acc.contributions]

-----------------------------------------------------------------------------
\* renderFacet, renderAllFacets, summarizeMerge

formatFacetName(facetType) ==
    CASE facetType = "questions" -> "Questions"
      [] facetType = "constraints" -> "Constraints"
      [] facetType = "outputTemplates" -> "Output Templates"
      [] facetType = "domainKnowledge" -> "Domain Knowledge"
      [] facetType = "processGuidance" -> "Process Guidance"
      [] facetType = "validationRules" -> "Validation Rules"

\* Variant: currentSource is never updated, every item gets a header.
RenderItemNeverUpdating(st, item) ==
    [lines |-> (IF Len(st.lines) > 0 THEN Append(st.lines, "") ELSE st.lines)
                  \o << "From " \o item.sourceId \o ":", item.content >>,
     currentSource |-> st.currentSource]

\* The body of "for (const item of content)" of renderFacet for one item.
RenderItem(st, item) ==
    LET withHeader ==
            IF item.sourceId # st.currentSource
            THEN (IF Len(st.lines) > 0 THEN Append(st.lines, "") ELSE st.lines)
                     \o << "From " \o item.sourceId \o ":" >>
            ELSE st.lines
    IN [lines |-> Append(withHeader, item.content),
        currentSource |-> IF item.sourceId # st.currentSource
                          THEN item.sourceId ELSE st.currentSource]

RECURSIVE RenderLoop(_, _, _)
RenderLoop(st, content, i) ==
    IF i > Len(content) THEN st
    ELSE RenderLoop(RenderItem(st, content[i]), content, i + 1)

\* The local array "lines" of renderFacet when it returns.
renderFacetLines(m, facetType) ==
    IF facetType \notin DOMAIN m.facets \/ Len(m.facets[facetType]) = 0
    THEN <<>>
    ELSE RenderLoop([lines |-> <<>>, currentSource |-> ""], m.facets[facetType], 1).lines

renderFacet(m, facetType) ==
    IF facetType \notin DOMAIN m.facets \/ Len(m.facets[facetType]) = 0
    THEN ""
    ELSE Join(renderFacetLines(m, facetType), "\n")

\* Variant: only the categories of the merge get a key.
renderAllFacetsOfMerge(m) ==
    [facetType \in DOMAIN m.facets |-> renderFacet(m, facetType)]

RECURSIVE RenderAllLoop(_, _, _)
RenderAllLoop(out, m, f) ==
    IF f > Len(FACET_TYPES) THEN out
    ELSE RenderAllLoop((FACET_TYPES[f] :> renderFacet(m, FACET_TYPES[f])) @@ out, m, f + 1)

renderAllFacets(m) == RenderAllLoop(<<>>, m, 1)

\* The three lines summarizeMerge pushes for one entry of contributions.
SummaryBlock(entry) ==
    << "- " \o entry.key \o ":",
       "  - Facets: " \o
           Join([k \in 1..Len(entry.value.facetTypes) |->
                    formatFacetName(entry.value.facetTypes[k])], ", "),
       "  - Content items: " \o ToString(entry.value.contentCount) >>

RECURSIVE SummaryLoop(_, _, _)
SummaryLoop(lines, contributions, i) ==
    IF i > Len(contributions) THEN lines
    ELSE SummaryLoop(lines \o SummaryBlock(contributions[i]), contributions, i + 1)

\* Variant: the header counts the entries of contributions.
summarizeMergeLinesCountingEntries(m) ==
    SummaryLoop(<< "Merged " \o ToString(Len(m.contributions)) \o " catalyst(s):", "" >>,
                m.contributions, 1)

\* The local array "lines" of summarizeMerge when it returns (past the early return).
summarizeMergeLines(m) ==
    SummaryLoop(<< "Merged " \o ToString(Len(m.catalystIds)) \o " catalyst(s):", "" >>,
                m.contributions, 1)

\* Variant: no early return for the empty merge.
summarizeMergeWithoutEarlyReturn(m) == Join(summarizeMergeLines(m), "\n")

summarizeMerge(m) ==
    IF Len(m.catalystIds) = 0
    THEN "No catalysts merged"
    ELSE Join(summarizeMergeLines(m), "\n")

-----------------------------------------------------------------------------
\* Values of parsed YAML and of JavaScript objects: a type tag with the text of
\* a scalar, the items of an array of strings, or the entries of a mapping of
\* strings (in insertion order).

JsUndefined == [ type |-> "undefined", value |-> "", items |-> << >>, entries |-> << >> ]

JsString(s) == [ type |-> "string", value |-> s, items |-> << >>, entries |-> << >> ]

JsBoolean(b) ==
    [ type |-> "boolean", value |-> IF b THEN "true" ELSE "false", items |-> << >>,
      entries |-> << >> ]

JsNumber == [ type |-> "number", value |-> "1", items |-> << >>, entries |-> << >> ]

JsArray(items) == [ type |-> "array", value |-> "", items |-> items, entries |-> << >> ]

JsObject(entries) ==
    [ type |-> "object", value |-> "", items |-> << >>, entries |-> entries ]

-----------------------------------------------------------------------------
\* The regular expressions of the schemas, matched as the engine scans them.

Digit == { "0", "1", "2", "3", "4", "5", "6", "7", "8", "9" }

\* The class \w.
WordChar ==
    { "a", "b", "c", "d", "e", "f", "g", "h", "i", "j", "k", "l", "m",
      "n", "o", "p", "q", "r", "s", "t", "u", "v", "w", "x", "y", "z",
      "A", "B", "C", "D", "E", "F", "G", "H", "I", "J", "K", "L", "M",
      "N", "O", "P", "Q", "R", "S", "T", "U", "V", "W", "X", "Y", "Z", "_" }
        \cup Digit

\* The class [\w-] of NPM_PACKAGE_PATTERN.
NameChar == WordChar \cup { "-" }

\* The class [\w.] of SEMVER_PATTERN.
PrereleaseChar == WordChar \cup { "." }

\* The character at position i is c (false past the end of s).
IsAt(s, i, c) == i >= 1 /\ i <= Len(s) /\ SubSeq(s, i, i) = c

\* A greedy run "[class]*" from position i: the position after the run.
RunEnd(s, i, class) ==
    LET stops == { j \in i..Len(s) : SubSeq(s, j, j) \notin class }
    IN  IF stops = {} THEN Len(s) + 1
        ELSE CHOOSE j \in stops : \A k \in stops : j <= k

\* Variant: no "$" anchor, the name only has to start the remainder.
NPM_PACKAGE_PATTERN_Unanchored(s) ==
    LET scopeEnd == RunEnd(s, 2, NameChar)
        scoped == IsAt(s, 1, "@") /\ scopeEnd > 2 /\ IsAt(s, scopeEnd, "/")
        start == IF scoped THEN scopeEnd + 1 ELSE 1
        end == RunEnd(s, start, NameChar)
    IN  end > start

\* NPM_PACKAGE_PATTERN.test(s): /^(@[\w-]+\/)?[\w-]+$/.
NPM_PACKAGE_PATTERN(s) ==
    LET scopeEnd == RunEnd(s, 2, NameChar)
        scoped == IsAt(s, 1, "@") /\ scopeEnd > 2 /\ IsAt(s, scopeEnd, "/")
        start == IF scoped THEN scopeEnd + 1 ELSE 1
        end == RunEnd(s, start, NameChar)
    IN  end > start /\ end = Len(s) + 1

\* SEMVER_PATTERN.test(s): /^\d+\.\d+\.\d+(-[\w.]+)?$/.
SEMVER_PATTERN(s) ==
    LET major == RunEnd(s, 1, Digit)
        minor == RunEnd(s, major + 1, Digit)
        patch == RunEnd(s, minor + 1, Digit)
        pre == RunEnd(s, patch + 1, PrereleaseChar)
    IN  /\ major > 1 /\ IsAt(s, major, ".")
        /\ minor > major + 1 /\ IsAt(s, minor, ".")
        /\ patch > minor + 1
        /\ \/ patch = Len(s) + 1
           \/ IsAt(s, patch, "-") /\ pre > patch + 1 /\ pre = Len(s) + 1

-----------------------------------------------------------------------------
\* CatalystManifestSchema (zod): safeParse of a parsed catalyst.yml.

\* Keys of a facets declaration in a file: the six of FacetsDeclarationSchema
\* and one key the schema does not know.
UnknownKey == "extra"

Issue(path, message) == path \o ": " \o message

\* z.string() of zod on a value that is no string.
StringTypeIssue(path, v) ==
    IF v.type = "undefined" THEN << Issue(path, "Required") >>
    ELSE << Issue(path, "Expected string, received " \o v.type) >>

\* z.string().min(1, message).
NonEmptyIssues(path, v, message) ==
    IF v.type # "string" THEN StringTypeIssue(path, v)
    ELSE IF Len(v.value) >= 1 THEN << >>
    ELSE << Issue(path, message) >>

\* FacetsDeclarationSchema: z.boolean().optional() on each of the six keys; the
\* keys the schema does not know are not looked at.
RECURSIVE DeclarationIssues(_, _)
DeclarationIssues(decl, k) ==
    IF k > Len(FACET_TYPES) THEN << >>
    ELSE (IF decl[FACET_TYPES[k]].type \in { "undefined", "boolean" } THEN << >>
          ELSE << Issue("facets." \o FACET_TYPES[k],
                        "Expected boolean, received " \o decl[FACET_TYPES[k]].type) >>)
             \o DeclarationIssues(decl, k + 1)

\* result.error.issues of CatalystManifestSchema.safeParse, each as
\* `${issue.path.join('.')}: ${issue.message}`: the id against
\* NPM_PACKAGE_PATTERN, name and description non-empty, the version against
\* SEMVER_PATTERN, facets optional.
CatalystManifestIssues(parsed) ==
    IF parsed.type # "object"
    THEN << Issue("", "Expected object, received " \o parsed.type) >>
    ELSE (IF parsed.id.type # "string" THEN StringTypeIssue("id", parsed.id)
          ELSE IF NPM_PACKAGE_PATTERN(parsed.id.value) THEN << >>
          ELSE << Issue("id", "ID must be a valid NPM package name (e.g., @scope/name or name)") >>)
             \o NonEmptyIssues("name", parsed.name, "Name cannot be empty")
             \o NonEmptyIssues("description", parsed.description,
                               "Description cannot be empty")
             \o (IF parsed.version.type # "string"
                 THEN StringTypeIssue("version", parsed.version)
                 ELSE IF SEMVER_PATTERN(parsed.version.value) THEN << >>
                 ELSE << Issue("version",
                               "Version must be valid semver (e.g., 1.0.0 or 1.0.0-dev.0)") >>)
             \o (IF parsed.facets.type = "undefined" THEN << >>
                 ELSE IF parsed.facets.type # "object"
                 THEN << Issue("facets",
                               "Expected object, received " \o parsed.facets.type) >>
                 ELSE DeclarationIssues(parsed.facets.decl, 1))

\* result.data: the keys of the schema, the unknown key of facets stripped.
CatalystManifestData(parsed) ==
    [ id |-> parsed.id.value,
      name |-> parsed.name.value,
      description |-> parsed.description.value,
      version |-> parsed.version.value,
      facets |-> [ type |-> parsed.facets.type,
                   decl |-> [ key \in FacetType |-> parsed.facets.decl[key] ] ] ]

\* The result of safeParse from the issues found and the data to return.
SafeParseResult(issues, data) ==
    IF Len(issues) = 0
    THEN [ success |-> TRUE, data |-> << data >>, issues |-> << >> ]
    ELSE [ success |-> FALSE, data |-> << >>, issues |-> issues ]

\* CatalystManifestSchema.safeParse(parsed).
CatalystManifestSchema(parsed) ==
    SafeParseResult(CatalystManifestIssues(parsed), CatalystManifestData(parsed))

-----------------------------------------------------------------------------
\* The file system the loader reads: a function from absolute paths to nodes.
\* A path outside its domain does not exist.

\* A text parseYaml rejects (also the yaml of every node but catalyst.yml).
NotYaml == [ parses |-> FALSE, parsed |-> [ type |-> "null" ] ]

DirectoryNode(listing) ==
    [ kind |-> "directory", listing |-> listing, readable |-> TRUE,
      text |-> "", yaml |-> NotYaml ]

\* A text file; an unreadable file fails to open with EACCES.
FileNode(text, readable) ==
    [ kind |-> "file", listing |-> << >>, readable |-> readable,
      text |-> text, yaml |-> NotYaml ]

\* An entry of the log of a call: a file-system call with its path, or a
\* console.warn with its text.
Logged(op, arg) == [ op |-> op, arg |-> arg ]

\* What a function of the loader comes to: the value it returns or the message
\* of the error it throws, with the log of what it did.
Return(value, log) ==
    [ threw |-> FALSE, value |-> << value >>, code |-> "", message |-> "", log |-> log ]

Throw(code, message, log) ==
    [ threw |-> TRUE, value |-> << >>, code |-> code, message |-> message, log |-> log ]

ValueOf(returned) == returned.value[1]

\* stat(path) of node:fs/promises.
stat(fs, path) ==
    IF path \in DOMAIN fs
    THEN Return(fs[path], << Logged("stat", path) >>)
    ELSE Throw("ENOENT", "ENOENT: no such file or directory, stat '" \o path \o "'",
               << Logged("stat", path) >>)

\* readFile(path, 'utf-8') of node:fs/promises.
readFile(fs, path) ==
    LET log == << Logged("readFile", path) >>
    IN  IF path \notin DOMAIN fs
        THEN Throw("ENOENT", "ENOENT: no such file or directory, open '" \o path \o "'", log)
        ELSE IF fs[path].kind = "directory"
        THEN Throw("EISDIR", "EISDIR: illegal operation on a directory, read", log)
        ELSE IF ~ fs[path].readable
        THEN Throw("EACCES", "EACCES: permission denied, open '" \o path \o "'", log)
        ELSE Return(fs[path], log)

\* path.join(directory, name).
join(directory, name) == directory \o "/" \o name

\* readdir(path, { withFileTypes: true }): the Dirents in listing order.
readdir(fs, path) ==
    LET log == << Logged("readdir", path) >>
    IN  IF path \notin DOMAIN fs
        THEN Throw("ENOENT", "ENOENT: no such file or directory, scandir '" \o path \o "'", log)
        ELSE IF fs[path].kind # "directory"
        THEN Throw("ENOTDIR", "ENOTDIR: not a directory, scandir '" \o path \o "'", log)
        ELSE Return([ k \in 1..Len(fs[path].listing) |->
                        [ name |-> fs[path].listing[k],
                          isFile |-> fs[join(path, fs[path].listing[k])].kind = "file" ] ],
                    log)

\* The working directory of the process.
Cwd == "/work"

\* path.resolve(base, path) for the paths of the model: an absolute path
\* (one that starts with "/") passes through, a relative one lands under base
\* without its leading "./".
resolve(base, path) ==
    LET from == IF Len(base) >= 1 /\ SubSeq(base, 1, 1) = "/" THEN base
                ELSE join(Cwd, base)
        plain == IF Len(path) >= 2 /\ SubSeq(path, 1, 2) = "./"
                 THEN SubSeq(path, 3, Len(path)) ELSE path
    IN  IF Len(path) >= 1 /\ SubSeq(path, 1, 1) = "/" THEN path ELSE join(from, plain)

-----------------------------------------------------------------------------
\* loader/catalyst-loader.ts

FACET_DIRECTORIES ==
    << [ facetKey |-> "questions", dirName |-> "questions" ],
       [ facetKey |-> "constraints", dirName |-> "constraints" ],
       [ facetKey |-> "outputTemplates", dirName |-> "output-templates" ],
       [ facetKey |-> "domainKnowledge", dirName |-> "domain-knowledge" ],
       [ facetKey |-> "processGuidance", dirName |-> "process-guidance" ],
       [ facetKey |-> "validationRules", dirName |-> "validation-rules" ] >>

\* The end of the try block of loadManifest, result being safeParse(parsed).
ValidatedManifest(result, log) ==
    IF ~ result.success
    THEN Throw("", "Invalid catalyst manifest: " \o Join(result.issues, "; "), log)
    ELSE Return(result.data[1], log)

\* loadManifest past readFile(manifestPath), content being what it came to.
ParsedManifest(manifestPath, content) ==
    IF content.threw
    THEN IF content.code = "ENOENT"
         THEN Throw("", "Catalyst manifest not found at " \o manifestPath, content.log)
         ELSE content
    ELSE IF ~ ValueOf(content).yaml.parses
    THEN Throw("BAD_YAML", "YAMLParseError", content.log)
    ELSE ValidatedManifest(CatalystManifestSchema(ValueOf(content).yaml.parsed),
                           content.log)

loadManifest(fs, directoryPath) ==
    ParsedManifest(join(directoryPath, "catalyst.yml"),
                   readFile(fs, join(directoryPath, "catalyst.yml")))

\* The readFile calls "mdFiles.map(async ...)" starts, in listing order.
RECURSIVE ReadAll(_, _, _, _)
ReadAll(fs, dirPath, mdFiles, k) ==
    IF k > Len(mdFiles) THEN << >>
    ELSE << readFile(fs, join(dirPath, mdFiles[k].name)) >>
             \o ReadAll(fs, dirPath, mdFiles, k + 1)

RECURSIVE LogsOf(_, _)
LogsOf(outcomes, k) ==
    IF k > Len(outcomes) THEN << >>
    ELSE outcomes[k].log \o LogsOf(outcomes, k + 1)

\* loadFacetFiles past the reads: Promise.all rejects with the first read that
\* fails; the directories of the model hold one unreadable file at most, so no
\* two rejections race.
FacetContents(mdFiles, reads, log) ==
    LET failed == { k \in 1..Len(reads) : reads[k].threw }
        first == CHOOSE k \in failed : \A j \in failed : k <= j
    IN  IF failed # {}
        THEN IF reads[first].code = "ENOENT" THEN Return(<< >>, log)
             ELSE Throw(reads[first].code, reads[first].message, log)
        ELSE Return([ k \in 1..Len(mdFiles) |->
                        [ filename |-> mdFiles[k].name,
                          content |-> ValueOf(reads[k]).text ] ],
                    log)

\* Variant: every regular file is taken, whatever its extension.
MarkdownEntriesOfAnyExtension(entries) ==
    SelectSeq(entries, LAMBDA entry : entry.isFile)

\* "entries.filter(entry => entry.isFile() && entry.name.endsWith('.md'))"
MarkdownEntries(entries) ==
    SelectSeq(entries,
              LAMBDA entry :
                  /\ entry.isFile
                  /\ Len(entry.name) >= 3
                  /\ SubSeq(entry.name, Len(entry.name) - 2, Len(entry.name)) = ".md")

\* loadFacetFiles past readdir(facetPath), entries being what it came to; the
\* markdown entries are read and their contents gathered.
EntriesRead(fs, dirPath, entries) ==
    IF entries.threw
    THEN IF entries.code = "ENOENT" THEN Return(<< >>, entries.log) ELSE entries
    ELSE FacetContents(MarkdownEntries(ValueOf(entries)),
                       ReadAll(fs, dirPath, MarkdownEntries(ValueOf(entries)), 1),
                       entries.log
                           \o LogsOf(ReadAll(fs, dirPath,
                                             MarkdownEntries(ValueOf(entries)), 1), 1))

loadFacetFiles(fs, dirPath) == EntriesRead(fs, dirPath, readdir(fs, dirPath))

\* directoryExists(path): stats.isDirectory(), false when stat throws.
directoryExists(fs, path) ==
    IF stat(fs, path).threw THEN Return(FALSE, stat(fs, path).log)
    ELSE Return(ValueOf(stat(fs, path)).kind = "directory", stat(fs, path).log)

\* Variant: the warning is given only when content was found.
FacetFoundWarningOnContent(acc, facetType, declared, options, log, content) ==
    IF content.threw
    THEN [ acc EXCEPT !.threw = TRUE, !.code = content.code,
                      !.message = content.message,
                      !.log = acc.log \o log \o content.log ]
    ELSE [ acc EXCEPT
             !.facets = IF Len(ValueOf(content)) > 0
                        THEN acc.facets @@ (facetType :> ValueOf(content))
                        ELSE acc.facets,
             !.warnings =
                 IF /\ declared = JsBoolean(FALSE)
                    /\ options.warnOnUndeclaredFacets
                    /\ Len(ValueOf(content)) > 0
                 THEN Append(acc.warnings,
                             "Facet '" \o facetType
                               \o "' is present but declared as false in manifest")
                 ELSE acc.warnings,
             !.log = acc.log \o log \o content.log ]

\* The branch "if (exists)" of the loop of loadFacets, content being what
\* loadFacetFiles came to; "if (content.length > 0) facets[facetType] = content".
FacetFound(acc, facetType, declared, options, log, content) ==
    IF content.threw
    THEN [ acc EXCEPT !.threw = TRUE, !.code = content.code,
                      !.message = content.message,
                      !.log = acc.log \o log \o content.log ]
    ELSE [ acc EXCEPT
             !.facets = IF Len(ValueOf(content)) > 0
                        THEN acc.facets @@ (facetType :> ValueOf(content))
                        ELSE acc.facets,
             !.warnings =
                 IF declared = JsBoolean(FALSE) /\ options.warnOnUndeclaredFacets
                 THEN Append(acc.warnings,
                             "Facet '" \o facetType
                               \o "' is present but declared as false in manifest")
                 ELSE acc.warnings,
             !.log = acc.log \o log \o content.log ]

\* Variant: the warning is given whatever the options say.
FacetMissingWarningAlways(acc, facetType, dirName, declared, options, log) ==
    [ acc EXCEPT
        !.warnings =
            IF declared = JsBoolean(TRUE)
            THEN Append(acc.warnings,
                        "Facet '" \o facetType
                          \o "' is declared in manifest but directory '"
                          \o dirName \o "' not found")
            ELSE acc.warnings,
        !.log = acc.log \o log ]

\* The branch "else" of the loop of loadFacets.
FacetMissing(acc, facetType, dirName, declared, options, log) ==
    [ acc EXCEPT
        !.warnings =
            IF declared = JsBoolean(TRUE) /\ options.warnOnMissingFacets
            THEN Append(acc.warnings,
                        "Facet '" \o facetType
                          \o "' is declared in manifest but directory '"
                          \o dirName \o "' not found")
            ELSE acc.warnings,
        !.log = acc.log \o log ]

\* The loop of loadFacets past directoryExists(facetPath).
FacetChecked(fs, facetPath, declared, options, acc, entry, exists) ==
    IF ValueOf(exists)
    THEN FacetFound(acc, entry.facetKey, declared, options, exists.log,
                    loadFacetFiles(fs, facetPath))
    ELSE FacetMissing(acc, entry.facetKey, entry.dirName, declared, options, exists.log)

\* The loop of loadFacets over FACET_DIRECTORIES from entry k on; acc holds the
\* locals facets and warnings, the log, and the error once thrown. declared
\* in the body is "manifest.facets?.[facetType]".
RECURSIVE FacetDirectoryLoop(_, _, _, _, _, _)
FacetDirectoryLoop(fs, directoryPath, manifest, options, acc, k) ==
    IF k > Len(FACET_DIRECTORIES) THEN acc
    ELSE FacetDirectoryLoop(fs, directoryPath, manifest, options,
             IF acc.threw THEN acc
             ELSE FacetChecked(fs, join(directoryPath, FACET_DIRECTORIES[k].dirName),
                      IF manifest.facets.type = "object"
                      THEN manifest.facets.decl[FACET_DIRECTORIES[k].facetKey]
                      ELSE JsUndefined,
                      options, acc, FACET_DIRECTORIES[k],
                      directoryExists(fs, join(directoryPath,
                                               FACET_DIRECTORIES[k].dirName))),
             k + 1)

\* loadFacets: { facets, warnings }, or the error of a read.
loadFacets(fs, directoryPath, manifest, options) ==
    FacetDirectoryLoop(fs, directoryPath, manifest, options,
        [ threw |-> FALSE, code |-> "", message |-> "", log |-> << >>,
          facets |-> << >>, warnings |-> << >> ],
        1)

\* Variant: the warnings are logged whether strict is set or not.
ConsoleWarningsIgnoringStrict(warnings, options) ==
    [ k \in 1..Len(warnings) |->
        Logged("console.warn", "[catalyst-loader] " \o warnings[k]) ]

\* The console.warn calls of loadCatalyst.
ConsoleWarnings(warnings, options) ==
    IF Len(warnings) > 0 /\ ~ options.strict
    THEN [ k \in 1..Len(warnings) |->
             Logged("console.warn", "[catalyst-loader] " \o warnings[k]) ]
    ELSE << >>

\* Variant: a warning makes the load fail.
FacetsLoadedFailingOnWarnings(absolutePath, manifest, options, log, loaded) ==
    IF loaded.threw
    THEN Throw(loaded.code, loaded.message, log \o loaded.log)
    ELSE IF Len(loaded.warnings) > 0
    THEN Throw("", loaded.warnings[1], log \o loaded.log)
    ELSE Return([ manifest |-> manifest,
                  facets |-> loaded.facets,
                  directoryPath |-> absolutePath ],
                log \o loaded.log)

\* loadCatalyst past loadFacets, loaded being what it came to.
FacetsLoaded(absolutePath, manifest, options, log, loaded) ==
    IF loaded.threw
    THEN Throw(loaded.code, loaded.message, log \o loaded.log)
    ELSE Return([ manifest |-> manifest,
                  facets |-> loaded.facets,
                  directoryPath |-> absolutePath ],
                log \o loaded.log \o ConsoleWarnings(loaded.warnings, options))

\* loadCatalyst past loadManifest, manifest being what it came to.
ManifestLoaded(fs, absolutePath, options, log, manifest) ==
    IF manifest.threw
    THEN Throw(manifest.code, manifest.message, log \o manifest.log)
    ELSE FacetsLoaded(absolutePath, ValueOf(manifest), options, log \o manifest.log,
                      loadFacets(fs, absolutePath, ValueOf(manifest), options))

\* Variant: the manifest is read whether the directory exists or not.
DirectoryUnchecked(fs, absolutePath, options, exists) ==
    ManifestLoaded(fs, absolutePath, options, exists.log,
                   loadManifest(fs, absolutePath))

\* loadCatalyst past directoryExists(absolutePath).
DirectoryChecked(fs, absolutePath, options, exists) ==
    IF ~ ValueOf(exists)
    THEN Throw("", "Catalyst directory not found: " \o absolutePath, exists.log)
    ELSE ManifestLoaded(fs, absolutePath, options, exists.log,
                        loadManifest(fs, absolutePath))

loadCatalyst(fs, directoryPath, options) ==
    DirectoryChecked(fs, resolve(Cwd, directoryPath), options,
                     directoryExists(fs, resolve(Cwd, directoryPath)))

\* Variant: the error of loadCatalyst escapes.
LoadResultRethrowing(loaded) == loaded

\* The CatalystLoadResult of loadCatalystSafe, an absent key as the empty
\* tuple; loaded is what loadCatalyst came to.
LoadResult(loaded) ==
    IF loaded.threw
    THEN Return([ success |-> FALSE, catalyst |-> << >>,
                  error |-> << loaded.message >> ], loaded.log)
    ELSE Return([ success |-> TRUE, catalyst |-> << ValueOf(loaded) >>,
                  error |-> << >> ], loaded.log)

loadCatalystSafe(fs, directoryPath, options) ==
    LoadResult(loadCatalyst(fs, directoryPath, options))

\* Variant: unshift instead of push, later catalysts land in front.
CatalystResolvedInFront(acc, identifier, catalyst) ==
    IF catalyst.threw
    THEN Throw("", "Failed to load catalyst '" \o identifier \o "': "
                     \o catalyst.message,
               acc.log \o catalyst.log)
    ELSE Return(<< ValueOf(catalyst) >> \o ValueOf(acc), acc.log \o catalyst.log)

\* The try block of the loop of resolveCatalysts, catalyst being what
\* loadCatalyst came to.
CatalystResolved(acc, identifier, catalyst) ==
    IF catalyst.threw
    THEN Throw("", "Failed to load catalyst '" \o identifier \o "': "
                     \o catalyst.message,
               acc.log \o catalyst.log)
    ELSE Return(Append(ValueOf(acc), ValueOf(catalyst)), acc.log \o catalyst.log)

\* Variant: an identifier that fails to load is skipped.
ResolveStepSkipping(fs, basePath, options, acc, identifier) ==
    IF loadCatalyst(fs, resolve(basePath, identifier), options).threw THEN acc
    ELSE CatalystResolved(acc, identifier,
                          loadCatalyst(fs, resolve(basePath, identifier), options))

\* The body of the loop of resolveCatalysts for one identifier; acc holds the
\* local catalysts, the log, and the error once thrown.
ResolveStep(fs, basePath, options, acc, identifier) ==
    IF acc.threw THEN acc
    ELSE CatalystResolved(acc, identifier,
                          loadCatalyst(fs, resolve(basePath, identifier), options))

RECURSIVE ResolveLoop(_, _, _, _, _, _)
ResolveLoop(fs, identifiers, basePath, options, acc, k) ==
    IF k > Len(identifiers) THEN acc
    ELSE ResolveLoop(fs, identifiers, basePath, options,
             ResolveStep(fs, basePath, options, acc, identifiers[k]), k + 1)

resolveCatalysts(fs, identifiers, basePath, options) ==
    ResolveLoop(fs, identifiers, basePath, options, Return(<< >>, << >>), 1)

-----------------------------------------------------------------------------
\* The inputs of the loader: the directories on disk and the arguments.

EmptyDisk == [ path \in {} |-> DirectoryNode(<< >>) ]

\* A facets declaration with no key.
NoDeclaration == [ key \in FacetType \cup { UnknownKey } |-> JsUndefined ]

FacetsAbsent == [ type |-> "undefined", decl |-> NoDeclaration ]

FacetsObject(decl) == [ type |-> "object", decl |-> decl ]

\* The parsed catalyst.yml of a catalyst that passes the schema.
ValidParsed(id, facets) ==
    [ type |-> "object", id |-> JsString(id), name |-> JsString("Test Catalyst"),
      description |-> JsString("A catalyst"), version |-> JsString("1.0.0-dev.0"),
      facets |-> facets ]

\* A catalyst directory with its catalyst.yml, whose text stands as the
\* document parseYaml makes of it (the listing of the directory itself is
\* never read).
WithManifest(root, yaml) ==
    (root :> DirectoryNode(<< >>))
        @@ (join(root, "catalyst.yml") :> [ FileNode("", TRUE) EXCEPT !.yaml = yaml ])

\* The disks of the model. At /work/a: nothing, a regular file, a directory
\* without catalyst.yml, with a catalyst.yml that is no YAML, with one the
\* schema rejects (twice), or a catalyst. The manifest of that catalyst says
\* nothing, true or false of "questions"; its directory "questions" is absent,
\* empty, without any markdown file, with two markdown files among other
\* entries (in the order the directory lists them), or with a file that
\* cannot be read; its entry "validation-rules" is absent, a regular file, or
\* a directory with one markdown file. At /work/b: nothing, a directory
\* without catalyst.yml, or a catalyst with one file of validation rules. At
\* /abs/c: nothing, or a catalyst without any facet.
Disks ==
    LET a == "/work/a"
        b == "/work/b"
        c == "/abs/c"
        q == join(a, "questions")
        v == join(a, "validation-rules")
    IN  { first @@ second @@ third :
            first \in
              { EmptyDisk,
                a :> FileNode("a file", TRUE),
                a :> DirectoryNode(<< >>),
                WithManifest(a, NotYaml),
                WithManifest(a, [ parses |-> TRUE,
                                  parsed |-> [ ValidParsed("my catalyst", FacetsAbsent)
                                                 EXCEPT !.version = JsString("v1.0.0") ] ]) }
                \cup
              { WithManifest(a, [ parses |-> TRUE,
                                  parsed |-> ValidParsed("@test/a", facets) ])
                    @@ questions @@ rules :
                  facets \in
                    { FacetsAbsent,
                      FacetsObject([ NoDeclaration EXCEPT !["questions"] = JsBoolean(TRUE) ]),
                      FacetsObject([ NoDeclaration EXCEPT !["questions"] = JsBoolean(FALSE) ]) },
                  questions \in
                    { EmptyDisk,
                      q :> DirectoryNode(<< >>),
                      (q :> DirectoryNode(<< "notes.txt" >>))
                          @@ (join(q, "notes.txt") :> FileNode("Notes", TRUE)),
                      (q :> DirectoryNode(<< "two.md", "notes.txt", "sub.md", "one.md" >>))
                          @@ (join(q, "two.md") :> FileNode("", TRUE))
                          @@ (join(q, "notes.txt") :> FileNode("Notes", TRUE))
                          @@ (join(q, "sub.md") :> DirectoryNode(<< >>))
                          @@ (join(q, "one.md") :> FileNode("One", TRUE)),
                      (q :> DirectoryNode(<< "one.md", "locked.md" >>))
                          @@ (join(q, "one.md") :> FileNode("One", TRUE))
                          @@ (join(q, "locked.md") :> FileNode("Locked", FALSE)) },
                  rules \in
                    { EmptyDisk,
                      v :> FileNode("not a directory", TRUE),
                      (v :> DirectoryNode(<< "rules.md" >>))
                          @@ (join(v, "rules.md") :> FileNode("Rules", TRUE)) } },
            second \in
              { EmptyDisk,
                b :> DirectoryNode(<< >>),
                WithManifest(b, [ parses |-> TRUE,
                                  parsed |-> ValidParsed("b", FacetsAbsent) ])
                    @@ (join(b, "validation-rules") :> DirectoryNode(<< "rules.md" >>))
                    @@ (join(join(b, "validation-rules"), "rules.md")
                           :> FileNode("Rules", TRUE)) },
            third \in
              { EmptyDisk,
                WithManifest(c, [ parses |-> TRUE,
                                  parsed |-> ValidParsed("c", FacetsAbsent) ]) } }

\* The directoryPath handed to loadCatalyst and loadCatalystSafe.
DirectoryPath == { "./a", "/work/b", "/abs/c", "/nonexistent/path" }

\* CatalystLoadOptions, an option left out as false.
CatalystLoadOptions ==
    [ strict : BOOLEAN, warnOnMissingFacets : BOOLEAN, warnOnUndeclaredFacets : BOOLEAN ]

\* The lists of identifiers handed to resolveCatalysts.
IdentifierLists == SeqsUpTo({ "a", "b", "c", "/abs/c" }, MaxIdentifiers)

\* Before any call of the loader.
NoCall ==
    [ op |-> "none", directoryPath |-> "", identifiers |-> << >>, basePath |-> "",
      options |-> [ strict |-> FALSE, warnOnMissingFacets |-> FALSE,
                    warnOnUndeclaredFacets |-> FALSE ] ]

NoOutcome == Return("none", << >>)

-----------------------------------------------------------------------------
\* The inputs of CatalystManifestSchema: parsed documents of any shape.

\* An empty catalyst.yml parses to null.
NullDocument ==
    [ type |-> "null", id |-> JsUndefined, name |-> JsUndefined,
      description |-> JsUndefined, version |-> JsUndefined, facets |-> FacetsAbsent ]

\* Parsed documents: ids and versions on both sides of the patterns, and
\* declarations in which two of the six keys and the unknown key vary.
ParsedDocuments ==
    { NullDocument }
        \cup [ type : { "object" },
               id : { JsUndefined, JsNumber }
                       \cup { JsString(s) :
                                s \in { "@scope/valid-name", "my-catalyst", "catalyst_1",
                                        "@invalid//package", "my catalyst", "",
                                        "@scope/", "@/name", "name/sub", "@a/b/c", "a@b" } },
               name : { JsUndefined, JsString(""), JsString("Catalyst") },
               description : { JsNumber, JsString(""), JsString("A catalyst") },
               version : { JsUndefined }
                            \cup { JsString(s) :
                                     s \in { "1.0.0", "1.0.0-dev.0", "10.20.30-rc_1",
                                             "v1.0.0", "1.0", "1.0.0-", "1.0.0+build",
                                             "1.0.0-dev 0", "1..0", "" } },
               facets : { FacetsAbsent,
                          [ type |-> "null", decl |-> NoDeclaration ],
                          [ type |-> "string", decl |-> NoDeclaration ] }
                            \cup { FacetsObject([ NoDeclaration EXCEPT
                                                    !["questions"] = q,
                                                    !["validationRules"] = v,
                                                    ![UnknownKey] = u ]) :
                                     q \in { JsUndefined, JsBoolean(TRUE), JsBoolean(FALSE),
                                             JsString("yes") },
                                     v \in { JsUndefined, JsBoolean(TRUE), JsNumber },
                                     u \in { JsUndefined, JsBoolean(TRUE),
                                             JsString("text") } } ]

\* Before safeParse is called.
NoResult == [ success |-> FALSE, data |-> << >>, issues |-> << >> ]

-----------------------------------------------------------------------------
\* PlanManifestSchema (zod): safeParse of a plan manifest.

\* A plan manifest as an object: a value under every key, undefined included.
PlanObject(id, title, catalystIds, created, metadata) ==
    [ type |-> "object", id |-> id, title |-> title, catalysts |-> catalystIds,
      created |-> created, metadata |-> metadata ]

\* null, as readPlanManifest returns it and as an empty plan.yaml parses.
NullPlan ==
    [ type |-> "null", id |-> JsUndefined, title |-> JsUndefined,
      catalysts |-> JsUndefined, created |-> JsUndefined, metadata |-> JsUndefined ]

\* An optional key of the schema: undefined or a value of the type.
OptionalIssues(path, v, type) ==
    IF v.type \in { "undefined", type } THEN << >>
    ELSE << Issue(path, "Expected " \o type \o ", received " \o v.type) >>

\* PlanManifestSchema.safeParse(parsed): the issues each as
\* `${issue.path.join('.')}: ${issue.message}`; result.data holds the keys of
\* the schema, which are all the keys of a PlanObject.
PlanManifestSchema(parsed) ==
    SafeParseResult(
        IF parsed.type # "object"
        THEN << Issue("", "Expected object, received " \o parsed.type) >>
        ELSE NonEmptyIssues("id", parsed.id, "ID cannot be empty")
                 \o NonEmptyIssues("title", parsed.title, "Title cannot be empty")
                 \o OptionalIssues("catalysts", parsed.catalysts, "array")
                 \o OptionalIssues("created", parsed.created, "string")
                 \o OptionalIssues("metadata", parsed.metadata, "object"),
        parsed)

-----------------------------------------------------------------------------
\* plan.yaml and the yaml library: the text of a manifest is a sequence of
\* "key: value" entries.

\* stringifyYaml(manifestToWrite): a key whose value is undefined is left out.
stringifyYaml(object) ==
    [ parses |-> TRUE,
      entries |-> SelectSeq(<< [ key |-> "id", value |-> object.id ],
                               [ key |-> "title", value |-> object.title ],
                               [ key |-> "catalysts", value |-> object.catalysts ],
                               [ key |-> "created", value |-> object.created ],
                               [ key |-> "metadata", value |-> object.metadata ] >>,
                            LAMBDA entry : entry.value.type # "undefined") ]

\* The value of a key in a parsed text, undefined when no entry has the key.
YamlGet(entries, key) ==
    IF MapHas(entries, key) THEN MapGet(entries, key) ELSE JsUndefined

\* parseYaml(content): a text without any entry parses to null.
parseYaml(text) ==
    IF Len(text.entries) = 0 THEN NullPlan
    ELSE PlanObject(YamlGet(text.entries, "id"), YamlGet(text.entries, "title"),
                    YamlGet(text.entries, "catalysts"), YamlGet(text.entries, "created"),
                    YamlGet(text.entries, "metadata"))

\* The plan directory without plan.yaml, and with a plan.yaml of some text.
NoPlanFile == [ exists |-> FALSE, text |-> [ parses |-> TRUE, entries |-> << >> ] ]

PlanFile(text) == [ exists |-> TRUE, text |-> text ]

-----------------------------------------------------------------------------
\* plan/plan-manifest.ts

MANIFEST_FILENAME == "plan.yaml"

\* The end of the try block of readPlanManifest, result being safeParse(parsed).
ValidatedPlan(result, log) ==
    IF ~ result.success
    THEN Throw("", "Invalid plan manifest: " \o Join(result.issues, "; "), log)
    ELSE Return(result.data[1], log)

\* Variant: a plan.yaml that violates the schema is taken for a missing one.
PlanReadLenient(content) ==
    IF content.threw
    THEN IF content.code = "ENOENT" THEN Return(NullPlan, content.log) ELSE content
    ELSE IF ~ ValueOf(content).parses
    THEN Throw("BAD_YAML", "YAMLParseError", content.log)
    ELSE IF ~ PlanManifestSchema(parseYaml(ValueOf(content))).success
    THEN Return(NullPlan, content.log)
    ELSE ValidatedPlan(PlanManifestSchema(parseYaml(ValueOf(content))), content.log)

\* readPlanManifest past readFile(manifestPath), content being what it came
\* to: the catch turns ENOENT into null and rethrows every other error.
PlanRead(content) ==
    IF content.threw
    THEN IF content.code = "ENOENT" THEN Return(NullPlan, content.log) ELSE content
    ELSE IF ~ ValueOf(content).parses
    THEN Throw("BAD_YAML", "YAMLParseError", content.log)
    ELSE ValidatedPlan(PlanManifestSchema(parseYaml(ValueOf(content))), content.log)

readPlanManifest(file) ==
    PlanRead(IF file.exists
             THEN Return(file.text, << Logged("readFile", MANIFEST_FILENAME) >>)
             ELSE Throw("ENOENT", "ENOENT: no such file or directory, open '"
                                    \o MANIFEST_FILENAME \o "'",
                        << Logged("readFile", MANIFEST_FILENAME) >>))

\* A value that is truthy: of the values of a manifest, a non-empty string, an
\* array or a mapping.
Truthy(v) == v.type \in { "array", "object" } \/ (v.type = "string" /\ v.value # "")

\* What an operation that may write comes to (its outcome and plan.yaml
\* after), the calls of log having gone before.
After(log, effect) == [ effect EXCEPT !.outcome.log = log \o @ ]

\* writePlanManifest past safeParse(manifest), result being what it came to:
\* the outcome of the call and plan.yaml after it;
\* "created: result.data.created || new Date().toISOString()".
PlanWritten(file, result, now) ==
    IF ~ result.success
    THEN [ outcome |-> Throw("", "Invalid plan manifest: "
                                     \o Join(result.issues, "; "), << >>),
           file |-> file ]
    ELSE [ outcome |-> Return(JsUndefined, << Logged("writeFile", MANIFEST_FILENAME) >>),
           file |-> PlanFile(stringifyYaml(
                        [ result.data[1] EXCEPT
                            !.created = IF Truthy(result.data[1].created)
                                        THEN result.data[1].created
                                        ELSE JsString(now) ])) ]

\* Variant: the manifest is written without being validated.
writePlanManifestUnvalidated(file, manifest, now) ==
    PlanWritten(file, SafeParseResult(<< >>, manifest), now)

writePlanManifest(file, manifest, now) ==
    PlanWritten(file, PlanManifestSchema(manifest), now)

\* Partial<PlanManifest> without any key: keys are the keys the object has,
\* value their values (a key may be there with the value undefined, and a key
\* that is not there reads as undefined).
NoUpdate ==
    [ keys |-> { },
      value |-> PlanObject(JsUndefined, JsUndefined, JsUndefined, JsUndefined,
                           JsUndefined) ]

\* "{ ...existing, ...updates }"
Spread(existing, updates) ==
    [ type |-> "object",
      id |-> IF "id" \in updates.keys THEN updates.value.id ELSE existing.id,
      title |-> IF "title" \in updates.keys THEN updates.value.title ELSE existing.title,
      catalysts |-> IF "catalysts" \in updates.keys THEN updates.value.catalysts
                    ELSE existing.catalysts,
      created |-> IF "created" \in updates.keys THEN updates.value.created
                  ELSE existing.created,
      metadata |-> IF "metadata" \in updates.keys THEN updates.value.metadata
                   ELSE existing.metadata ]

\* Variant: updates without id or title are not turned away.
PlanUpdatedWithoutCheck(file, updates, now, existing) ==
    IF existing.threw THEN [ outcome |-> existing, file |-> file ]
    ELSE After(existing.log,
               writePlanManifest(file,
                   Spread(IF ValueOf(existing).type = "null"
                          THEN PlanObject(JsString(""), JsString(""), JsUndefined,
                                          JsUndefined, JsUndefined)
                          ELSE ValueOf(existing),
                          updates),
                   now))

\* updatePlanManifest past readPlanManifest, existing being what it came to;
\* without a manifest the updates go over "{ id: '', title: '' }".
PlanUpdated(file, updates, now, existing) ==
    IF existing.threw THEN [ outcome |-> existing, file |-> file ]
    ELSE IF ValueOf(existing).type = "null"
    THEN IF ~ Truthy(updates.value.id) \/ ~ Truthy(updates.value.title)
         THEN [ outcome |-> Throw("", "Cannot create manifest without id and title",
                                  existing.log),
                file |-> file ]
         ELSE After(existing.log,
                    writePlanManifest(file,
                        Spread(PlanObject(JsString(""), JsString(""), JsUndefined,
                                          JsUndefined, JsUndefined),
                               updates),
                        now))
    ELSE After(existing.log,
               writePlanManifest(file, Spread(ValueOf(existing), updates), now))

updatePlanManifest(file, updates, now) ==
    PlanUpdated(file, updates, now, readPlanManifest(file))

\* "manifest?.catalysts ?? []"
CurrentCatalysts(manifest) ==
    IF manifest.type = "null" \/ manifest.catalysts.type = "undefined" THEN << >>
    ELSE manifest.catalysts.items

\* "if (!currentCatalysts.includes(catalystId)) currentCatalysts.push(catalystId)"
Pushed(currentCatalysts, catalystId) ==
    IF ~ Includes(currentCatalysts, catalystId)
    THEN Append(currentCatalysts, catalystId)
    ELSE currentCatalysts

\* addCatalystToManifest past readPlanManifest, manifest being what it came to.
CatalystAdded(file, catalystId, now, manifest) ==
    IF manifest.threw THEN [ outcome |-> manifest, file |-> file ]
    ELSE After(manifest.log,
               updatePlanManifest(file,
                   [ NoUpdate EXCEPT
                       !.keys = { "catalysts" },
                       !.value.catalysts =
                           JsArray(Pushed(CurrentCatalysts(ValueOf(manifest)),
                                          catalystId)) ],
                   now))

addCatalystToManifest(file, catalystId, now) ==
    CatalystAdded(file, catalystId, now, readPlanManifest(file))

\* "currentCatalysts.filter(id => id !== catalystId)"
Filtered(currentCatalysts, catalystId) ==
    SelectSeq(currentCatalysts, LAMBDA id : id # catalystId)

\* Variant: the list is written back also when it is left empty.
CatalystRemovedKeepingList(file, catalystId, now, manifest) ==
    IF manifest.threw THEN [ outcome |-> manifest, file |-> file ]
    ELSE IF Len(Filtered(CurrentCatalysts(ValueOf(manifest)), catalystId))
              # Len(CurrentCatalysts(ValueOf(manifest)))
    THEN After(manifest.log,
               updatePlanManifest(file,
                   [ NoUpdate EXCEPT
                       !.keys = { "catalysts" },
                       !.value.catalysts =
                           JsArray(Filtered(CurrentCatalysts(ValueOf(manifest)),
                                            catalystId)) ],
                   now))
    ELSE [ outcome |-> Return(JsUndefined, manifest.log), file |-> file ]

\* removeCatalystFromManifest past readPlanManifest, manifest being what it
\* came to.
CatalystRemoved(file, catalystId, now, manifest) ==
    IF manifest.threw THEN [ outcome |-> manifest, file |-> file ]
    ELSE IF Len(Filtered(CurrentCatalysts(ValueOf(manifest)), catalystId))
              # Len(CurrentCatalysts(ValueOf(manifest)))
    THEN After(manifest.log,
               updatePlanManifest(file,
                   [ NoUpdate EXCEPT
                       !.keys = { "catalysts" },
                       !.value.catalysts =
                           IF Len(Filtered(CurrentCatalysts(ValueOf(manifest)),
                                           catalystId)) > 0
                           THEN JsArray(Filtered(CurrentCatalysts(ValueOf(manifest)),
                                                 catalystId))
                           ELSE JsUndefined ],
                   now))
    ELSE [ outcome |-> Return(JsUndefined, manifest.log), file |-> file ]

removeCatalystFromManifest(file, catalystId, now) ==
    CatalystRemoved(file, catalystId, now, readPlanManifest(file))

-----------------------------------------------------------------------------
\* The inputs of the plan manifest: what plan.yaml holds at first, and the
\* arguments of the calls.

\* What new Date().toISOString() may return.
Timestamp == { "2026-11-05T10:00:00.000Z", "2026-11-06T10:00:00.000Z" }

\* Ids of catalysts.
PlanCatalystId == { "@kjerneverk/catalyst-nodejs", "react" }

\* The manifests handed to writePlanManifest: some violate the schema.
PlanManifests ==
    { PlanObject(id, JsString("Plan"), catalystIds, created, metadata) :
        id \in { JsString("plan"), JsString("") },
        catalystIds \in { JsUndefined,
                          JsArray(<< "react", "@kjerneverk/catalyst-nodejs" >>) },
        created \in { JsUndefined, JsString(""), JsString("2026-02-08T12:00:00Z") },
        metadata \in { JsUndefined,
                       JsObject(<< [ key |-> "author", value |-> "Test" ] >>) } }

\* The plan.yaml of a directory before any call: none, a text that is no YAML,
\* an empty one, a manifest written by hand (without created, with a list
\* that repeats an id, or violating the schema), or a manifest as
\* writePlanManifest leaves it.
InitialPlanFiles ==
    { NoPlanFile,
      PlanFile([ parses |-> FALSE, entries |-> << >> ]),
      PlanFile([ parses |-> TRUE, entries |-> << >> ]),
      PlanFile([ parses |-> TRUE,
                 entries |-> << [ key |-> "title",
                                  value |-> JsString("Only Title") ] >> ]),
      PlanFile(stringifyYaml(PlanObject(JsString("plan"), JsString("Plan"),
                                        JsString("react"), JsUndefined, JsUndefined))) }
        \cup { PlanFile(stringifyYaml(PlanObject(JsString("plan"), JsString("Plan"),
                                                 catalystIds, created, metadata))) :
                 catalystIds \in { JsUndefined, JsArray(<< >>),
                                   JsArray(<< "@kjerneverk/catalyst-nodejs" >>),
                                   JsArray(<< "react", "react" >>) },
                 created \in { JsUndefined, JsString(""),
                               JsString("2026-02-08T12:00:00Z") },
                 metadata \in { JsUndefined,
                                JsObject(<< [ key |-> "author", value |-> "Test" ] >>) } }

\* The updates handed to updatePlanManifest.
PlanUpdates ==
    { NoUpdate,
      [ NoUpdate EXCEPT !.keys = { "title" }, !.value.title = JsString("Updated") ],
      [ NoUpdate EXCEPT !.keys = { "id" }, !.value.id = JsString("") ],
      [ NoUpdate EXCEPT !.keys = { "id", "title" }, !.value.id = JsString("new-plan"),
                        !.value.title = JsString("New Plan") ],
      [ NoUpdate EXCEPT !.keys = { "catalysts" },
                        !.value.catalysts = JsArray(<< "react" >>) ],
      [ NoUpdate EXCEPT !.keys = { "catalysts" } ],
      [ NoUpdate EXCEPT !.keys = { "created" }, !.value.created = JsString("") ],
      [ NoUpdate EXCEPT !.keys = { "created" },
                        !.value.created = JsString("2026-03-01T00:00:00Z") ],
      [ NoUpdate EXCEPT !.keys = { "metadata" },
                        !.value.metadata =
                            JsObject(<< [ key |-> "version", value |-> "2.0" ] >>) ] }

\* Before any call on the plan manifest.
NoPlanCall ==
    [ op |-> "none", manifest |-> NullPlan, updates |-> NoUpdate, catalystId |-> "" ]

-----------------------------------------------------------------------------
\* The state machine: a caller merges a list of catalysts, then renders.

LoaderIdle ==
    /\ disk = EmptyDisk
    /\ call = NoCall
    /\ outcome = NoOutcome

SchemaIdle ==
    /\ document = NullDocument
    /\ validated = FALSE
    /\ parseResult = NoResult

PlanIdle ==
    /\ planFile = NoPlanFile
    /\ planCall = NoPlanCall
    /\ planOutcome = NoOutcome

\* No facet directory is being read and no call runs beside another.
ConcurrentIdle ==
    /\ facetEntries = << >>
    /\ readPc = "idle"
    /\ readState = << >>
    /\ firstRejected = 0
    /\ facetOutcome = NoOutcome
    /\ facetsStored = << >>
    /\ racePlan = NoPlanFile
    /\ adders = << >>

NoMerge == [catalystIds |-> <<>>, facets |-> <<>>, contributions |-> <<>>]

Init ==
    /\ catalysts \in InputLists
    /\ merged = NoMerge
    /\ pc = "loaded"
    /\ renderedType = ""
    /\ rendered = ""
    /\ renderedAll = <<>>
    /\ summary = ""
    /\ LoaderIdle
    /\ SchemaIdle
    /\ PlanIdle
    /\ ConcurrentIdle

MergeCatalysts ==
    /\ pc = "loaded"
    /\ merged' = mergeCatalysts(catalysts)
    /\ pc' = "merged"
    /\ UNCHANGED <<catalysts, renderedType, rendered, renderedAll, summary>>
    /\ UNCHANGED <<loaderVars, schemaVars, planVars, concurrentVars>>

RenderFacet ==
    /\ pc = "merged"
    /\ \E facetType \in FacetType :
          /\ renderedType' = facetType
          /\ rendered' = renderFacet(merged, facetType)
    /\ pc' = "renderFacet"
    /\ UNCHANGED <<catalysts, merged, renderedAll, summary>>
    /\ UNCHANGED <<loaderVars, schemaVars, planVars, concurrentVars>>

RenderAllFacets ==
    /\ pc = "merged"
    /\ renderedAll' = renderAllFacets(merged)
    /\ pc' = "renderAllFacets"
    /\ UNCHANGED <<catalysts, merged, renderedType, rendered, summary>>
    /\ UNCHANGED <<loaderVars, schemaVars, planVars, concurrentVars>>

SummarizeMerge ==
    /\ pc = "merged"
    /\ summary' = summarizeMerge(merged)
    /\ pc' = "summarizeMerge"
    /\ UNCHANGED <<catalysts, merged, renderedType, rendered, renderedAll>>
    /\ UNCHANGED <<loaderVars, schemaVars, planVars, concurrentVars>>

Next ==
    \/ MergeCatalysts
    \/ RenderFacet
    \/ RenderAllFacets
    \/ SummarizeMerge

Spec == Init /\ [][Next]_vars

\* The merger before any list is handed to it.
MergerIdle ==
    /\ catalysts = << >>
    /\ merged = NoMerge
    /\ pc = "idle"
    /\ renderedType = ""
    /\ rendered = ""
    /\ renderedAll = <<>>
    /\ summary = ""

-----------------------------------------------------------------------------
\* The loader: a caller loads catalysts from a disk that does not change. The
\* loader keeps nothing between two calls, so a behaviour follows one call.

LoaderInit ==
    /\ disk \in Disks
    /\ call = NoCall
    /\ outcome = NoOutcome
    /\ MergerIdle
    /\ SchemaIdle
    /\ PlanIdle
    /\ ConcurrentIdle

LoadCatalyst ==
    /\ call = NoCall
    /\ \E directoryPath \in DirectoryPath, options \in CatalystLoadOptions :
          /\ call' = [ NoCall EXCEPT !.op = "loadCatalyst",
                                     !.directoryPath = directoryPath,
                                     !.options = options ]
          /\ outcome' = loadCatalyst(disk, directoryPath, options)
    /\ UNCHANGED <<disk, mergerVars, schemaVars, planVars, concurrentVars>>

LoadCatalystSafe ==
    /\ call = NoCall
    /\ \E directoryPath \in DirectoryPath, options \in CatalystLoadOptions :
          /\ call' = [ NoCall EXCEPT !.op = "loadCatalystSafe",
                                     !.directoryPath = directoryPath,
                                     !.options = options ]
          /\ outcome' = loadCatalystSafe(disk, directoryPath, options)
    /\ UNCHANGED <<disk, mergerVars, schemaVars, planVars, concurrentVars>>

ResolveCatalysts ==
    /\ call = NoCall
    /\ \E identifiers \in IdentifierLists, basePath \in { "/work", "/abs" },
          options \in { [ strict |-> FALSE, warnOnMissingFacets |-> TRUE,
                          warnOnUndeclaredFacets |-> TRUE ] } :
          /\ call' = [ NoCall EXCEPT !.op = "resolveCatalysts",
                                     !.identifiers = identifiers,
                                     !.basePath = basePath,
                                     !.options = options ]
          /\ outcome' = resolveCatalysts(disk, identifiers, basePath, options)
    /\ UNCHANGED <<disk, mergerVars, schemaVars, planVars, concurrentVars>>

LoaderNext ==
    \/ LoadCatalyst
    \/ LoadCatalystSafe
    \/ ResolveCatalysts

LoaderSpec == LoaderInit /\ [][LoaderNext]_vars

-----------------------------------------------------------------------------
\* The schema: a parsed catalyst.yml is handed to CatalystManifestSchema.

SchemaInit ==
    /\ document \in ParsedDocuments
    /\ parseResult = NoResult
    /\ validated = FALSE
    /\ MergerIdle
    /\ LoaderIdle
    /\ PlanIdle
    /\ ConcurrentIdle

SafeParse ==
    /\ ~ validated
    /\ parseResult' = CatalystManifestSchema(document)
    /\ validated' = TRUE
    /\ UNCHANGED <<document, mergerVars, loaderVars, planVars, concurrentVars>>

SchemaNext == SafeParse

SchemaSpec == SchemaInit /\ [][SchemaNext]_vars


-----------------------------------------------------------------------------
\* The plan manifest: callers read, write and update the plan.yaml of one plan
\* directory, one call after the other.

PlanInit ==
    /\ planFile \in InitialPlanFiles
    /\ planCall = NoPlanCall
    /\ planOutcome = NoOutcome
    /\ MergerIdle
    /\ LoaderIdle
    /\ SchemaIdle
    /\ ConcurrentIdle

ReadPlanManifest ==
    /\ planCall' = [ NoPlanCall EXCEPT !.op = "readPlanManifest" ]
    /\ planOutcome' = readPlanManifest(planFile)
    /\ UNCHANGED <<planFile, mergerVars, loaderVars, schemaVars, concurrentVars>>

WritePlanManifest ==
    /\ \E manifest \in PlanManifests, now \in Timestamp :
          /\ planCall' = [ NoPlanCall EXCEPT !.op = "writePlanManifest",
                                             !.manifest = manifest ]
          /\ planOutcome' = writePlanManifest(planFile, manifest, now).outcome
          /\ planFile' = writePlanManifest(planFile, manifest, now).file
    /\ UNCHANGED <<mergerVars, loaderVars, schemaVars, concurrentVars>>

UpdatePlanManifest ==
    /\ \E updates \in PlanUpdates, now \in Timestamp :
          /\ planCall' = [ NoPlanCall EXCEPT !.op = "updatePlanManifest",
                                             !.updates = updates ]
          /\ planOutcome' = updatePlanManifest(planFile, updates, now).outcome
          /\ planFile' = updatePlanManifest(planFile, updates, now).file
    /\ UNCHANGED <<mergerVars, loaderVars, schemaVars, concurrentVars>>

AddCatalystToManifest ==
    /\ \E catalystId \in PlanCatalystId, now \in Timestamp :
          /\ planCall' = [ NoPlanCall EXCEPT !.op = "addCatalystToManifest",
                                             !.catalystId = catalystId ]
          /\ planOutcome' = addCatalystToManifest(planFile, catalystId, now).outcome
          /\ planFile' = addCatalystToManifest(planFile, catalystId, now).file
    /\ UNCHANGED <<mergerVars, loaderVars, schemaVars, concurrentVars>>

RemoveCatalystFromManifest ==
    /\ \E catalystId \in PlanCatalystId, now \in Timestamp :
          /\ planCall' = [ NoPlanCall EXCEPT !.op = "removeCatalystFromManifest",
                                             !.catalystId = catalystId ]
          /\ planOutcome' = removeCatalystFromManifest(planFile, catalystId, now).outcome
          /\ planFile' = removeCatalystFromManifest(planFile, catalystId, now).file
    /\ UNCHANGED <<mergerVars, loaderVars, schemaVars, concurrentVars>>

PlanNext ==
    \/ ReadPlanManifest
    \/ WritePlanManifest
    \/ UpdatePlanManifest
    \/ AddCatalystToManifest
    \/ RemoveCatalystFromManifest

PlanSpec == PlanInit /\ [][PlanNext]_vars

-----------------------------------------------------------------------------
\* loadFacetFiles read by read: the reads of the markdown files of one facet
\* directory are started together and complete in any order.

\* What "await Promise.all(...)" and the catch block make of the reads:
\* rejected is the first read to reject (0 when all are fulfilled).
Settled(entries, results, rejected) ==
    IF rejected # 0
    THEN IF results[rejected].code = "ENOENT" THEN Return(<< >>, << >>)
         ELSE Throw(results[rejected].code, results[rejected].message, << >>)
    ELSE Return([ k \in 1..Len(entries) |->
                    [ filename |-> entries[k].name,
                      content |-> ValueOf(results[k]).text ] ],
                << >>)

\* readdir has listed the markdown files of questions/, in listing order; each
\* can be read, cannot be read, or is removed before it is read.
ReadInit ==
    /\ facetEntries \in
          { entries \in SeqsUpTo([ name : { "b.md", "a.md", "d.md", "c.md" },
                                   result : { "text", "EACCES", "ENOENT" } ],
                                 MaxFiles) :
              \A i, j \in 1..Len(entries) : entries[i].name = entries[j].name => i = j }
    /\ readPc = "listed"
    /\ readState = << >>
    /\ firstRejected = 0
    /\ facetOutcome = NoOutcome
    /\ facetsStored = << >>
    /\ racePlan = NoPlanFile
    /\ adders = << >>
    /\ MergerIdle
    /\ LoaderIdle
    /\ SchemaIdle
    /\ PlanIdle

\* "markdownFiles.map(async (file) => ...)": every read is started.
StartReads ==
    /\ readPc = "listed"
    /\ readPc' = "reading"
    /\ readState' = [ k \in 1..Len(facetEntries) |-> NoOutcome ]
    /\ UNCHANGED <<facetEntries, firstRejected, facetOutcome, facetsStored>>
    /\ UNCHANGED <<racePlan, adders, mergerVars, loaderVars, schemaVars, planVars>>

\* One read that is under way completes, "await readFile(filePath, 'utf-8')":
\* with the text, or with the error of a file that cannot be read (EACCES) or
\* that was removed after readdir listed it (ENOENT). The first read to reject
\* rejects the promise of Promise.all. Reads still under way when
\* loadFacetFiles has returned complete as well, to no effect.
ReadCompletes ==
    /\ readPc # "listed"
    /\ \E k \in 1..Len(readState) :
          /\ readState[k].log = << >>
          /\ readState' = [ readState EXCEPT
                              ![k] = readFile(
                                         IF facetEntries[k].result = "ENOENT"
                                         THEN EmptyDisk
                                         ELSE join("/work/a/questions",
                                                   facetEntries[k].name)
                                                :> FileNode(
                                                     "# " \o facetEntries[k].name,
                                                     facetEntries[k].result = "text"),
                                         join("/work/a/questions",
                                              facetEntries[k].name)) ]
          /\ firstRejected' =
                IF firstRejected = 0 /\ facetEntries[k].result # "text"
                THEN k ELSE firstRejected
    /\ UNCHANGED <<facetEntries, readPc, facetOutcome, facetsStored>>
    /\ UNCHANGED <<racePlan, adders, mergerVars, loaderVars, schemaVars, planVars>>

\* Promise.all is settled: loadFacetFiles returns or throws, and loadFacets
\* stores the content, "if (content.length > 0) facets[facetType] = content",
\* or fails with the error.
FacetFilesLoaded ==
    /\ readPc = "reading"
    /\ \/ firstRejected # 0
       \/ \A k \in 1..Len(readState) : readState[k].log # << >>
    /\ facetOutcome' = Settled(facetEntries, readState, firstRejected)
    /\ readPc' = IF facetOutcome'.threw THEN "failed" ELSE "loaded"
    /\ facetsStored' = IF ~ facetOutcome'.threw /\ Len(ValueOf(facetOutcome')) > 0
                       THEN "questions" :> ValueOf(facetOutcome')
                       ELSE << >>
    /\ UNCHANGED <<facetEntries, readState, firstRejected>>
    /\ UNCHANGED <<racePlan, adders, mergerVars, loaderVars, schemaVars, planVars>>

ReadNext ==
    \/ StartReads
    \/ ReadCompletes
    \/ FacetFilesLoaded

ReadSpec == ReadInit /\ [][ReadNext]_vars

-----------------------------------------------------------------------------
\* Two calls of addCatalystToManifest on one plan directory, for different
\* ids; each await (readFile, readFile, writeFile) is a step, and the steps
\* of the two calls interleave in any way.

RaceInit ==
    /\ racePlan \in InitialPlanFiles
    /\ adders \in { [ p \in 1..2 |->
                        [ pc |-> "start", catalystId |-> ids[p],
                          currentCatalysts |-> << >>,
                          existing |-> NoOutcome, outcome |-> NoOutcome ] ] :
                    ids \in { << "react", "@kjerneverk/catalyst-nodejs" >>,
                              << "@kjerneverk/catalyst-nodejs", "react" >> } }
    /\ facetEntries = << >>
    /\ readPc = "idle"
    /\ readState = << >>
    /\ firstRejected = 0
    /\ facetOutcome = NoOutcome
    /\ facetsStored = << >>
    /\ MergerIdle
    /\ LoaderIdle
    /\ SchemaIdle
    /\ PlanIdle

\* "const manifest = await readPlanManifest(planDirectory)" of
\* addCatalystToManifest, and the push on currentCatalysts.
AddReads ==
    /\ \E p \in 1..2 :
          /\ adders[p].pc = "start"
          /\ adders' =
                [ adders EXCEPT
                    ![p] = IF readPlanManifest(racePlan).threw
                           THEN [ @ EXCEPT !.pc = "done",
                                           !.outcome = readPlanManifest(racePlan) ]
                           ELSE [ @ EXCEPT
                                    !.pc = "update",
                                    !.currentCatalysts =
                                        Pushed(CurrentCatalysts(
                                                   ValueOf(readPlanManifest(racePlan))),
                                               adders[p].catalystId) ] ]
    /\ UNCHANGED <<racePlan, mergerVars, loaderVars, schemaVars, planVars>>
    /\ UNCHANGED <<facetEntries, readPc, readState, firstRejected, facetOutcome,
                   facetsStored>>

\* "let existing = await readPlanManifest(planDirectory)" of updatePlanManifest.
UpdateReads ==
    /\ \E p \in 1..2 :
          /\ adders[p].pc = "update"
          /\ adders' = [ adders EXCEPT ![p].pc = "write",
                                       ![p].existing = readPlanManifest(racePlan) ]
    /\ UNCHANGED <<racePlan, mergerVars, loaderVars, schemaVars, planVars>>
    /\ UNCHANGED <<facetEntries, readPc, readState, firstRejected, facetOutcome,
                   facetsStored>>

\* The rest of updatePlanManifest: the updates go over what was read and
\* writePlanManifest writes the result, or the call fails.
UpdateWrites ==
    /\ \E p \in 1..2, now \in Timestamp :
          /\ adders[p].pc = "write"
          /\ racePlan' =
                PlanUpdated(racePlan,
                            [ NoUpdate EXCEPT
                                !.keys = { "catalysts" },
                                !.value.catalysts = JsArray(adders[p].currentCatalysts) ],
                            now, adders[p].existing).file
          /\ adders' =
                [ adders EXCEPT
                    ![p].pc = "done",
                    ![p].outcome =
                        PlanUpdated(racePlan,
                                    [ NoUpdate EXCEPT
                                        !.keys = { "catalysts" },
                                        !.value.catalysts =
                                            JsArray(adders[p].currentCatalysts) ],
                                    now, adders[p].existing).outcome ]
    /\ UNCHANGED <<mergerVars, loaderVars, schemaVars, planVars>>
    /\ UNCHANGED <<facetEntries, readPc, readState, firstRejected, facetOutcome,
                   facetsStored>>

RaceNext ==
    \/ AddReads
    \/ UpdateReads
    \/ UpdateWrites

RaceSpec == RaceInit /\ [][RaceNext]_vars

-----------------------------------------------------------------------------
\* Vocabulary of the properties, stated on the input list and on the results
\* only (none of it uses the operators of the merger or of the renderer).

Range(s) == { s[k] : k \in 1..Len(s) }

\* Number of files the catalyst at position i holds for a category.
NFiles(i, facetType) ==
    IF facetType \in DOMAIN catalysts[i].facets
    THEN Len(catalysts[i].facets[facetType])
    ELSE 0

RECURSIVE FilesBefore(_, _)
\* Number of files the catalysts at positions 1..i-1 hold for a category.
FilesBefore(i, facetType) ==
    IF i <= 1 THEN 0
    ELSE FilesBefore(i - 1, facetType) + NFiles(i - 1, facetType)

\* The merged list of a category, empty when the key is absent.
MergedList(facetType) ==
    IF facetType \in DOMAIN merged.facets THEN merged.facets[facetType] ELSE <<>>

\* The item file p of the catalyst at position i is expected to become.
ItemOf(i, facetType, p) ==
    [content |-> catalysts[i].facets[facetType][p].content,
     sourceId |-> catalysts[i].manifest.id,
     filename |-> catalysts[i].facets[facetType][p].filename]

Contributes(i, facetType) == NFiles(i, facetType) > 0

Positions == 1..Len(catalysts)

\* C1: for every category and input positions i < j, every item contributed
\* by the catalyst at i sits in the merged list before every item contributed
\* by the catalyst at j, also when both positions carry the same id.
C1_InputOrderPreserved ==
    pc = "merged" =>
        \A facetType \in FacetType : \A i, j \in Positions :
            i < j =>
                \A p \in 1..NFiles(i, facetType), q \in 1..NFiles(j, facetType) :
                    LET a == FilesBefore(i, facetType) + p
                        b == FilesBefore(j, facetType) + q
                    IN /\ a < b
                       /\ b <= Len(MergedList(facetType))
                       /\ MergedList(facetType)[a] = ItemOf(i, facetType, p)
                       /\ MergedList(facetType)[b] = ItemOf(j, facetType, q)

\* A merge where one id sits at positions 1 and 3 around another id and all
\* three contribute to the same category.
C1_Witness ==
    /\ pc = "merged"
    /\ Len(catalysts) = 3
    /\ catalysts[1].manifest.id = catalysts[3].manifest.id
    /\ catalysts[1].manifest.id # catalysts[2].manifest.id
    /\ \E facetType \in FacetType : \A i \in Positions : Contributes(i, facetType)

\* C2: for every catalyst and category with non-empty content the merged list
\* holds exactly one item per file of that catalyst, in the catalyst's file
\* order, with the file's content and filename and the catalyst's manifest id.
C2_OneItemPerFile ==
    pc = "merged" =>
        \A facetType \in FacetType :
            /\ Len(MergedList(facetType)) = FilesBefore(Len(catalysts) + 1, facetType)
            /\ \A i \in Positions :
                  Contributes(i, facetType) =>
                      SubSeq(MergedList(facetType),
                             FilesBefore(i, facetType) + 1,
                             FilesBefore(i, facetType) + NFiles(i, facetType))
                        = [p \in 1..NFiles(i, facetType) |->
                              [content |-> catalysts[i].facets[facetType][p].content,
                               sourceId |-> catalysts[i].manifest.id,
                               filename |-> catalysts[i].facets[facetType][p].filename]]

\* A merge with a catalyst that holds two different files in one category.
C2_Witness ==
    /\ pc = "merged"
    /\ \E i \in Positions : \E facetType \in FacetType :
          /\ NFiles(i, facetType) >= 2
          /\ catalysts[i].facets[facetType][1] # catalysts[i].facets[facetType][2]
          /\ FilesBefore(i, facetType) > 0

\* C3: a category key is present in the merged facets iff some input catalyst
\* has at least one content item for it; no key maps to an empty list.
C3_KeyIffContent ==
    pc = "merged" =>
        /\ \A facetType \in FacetType :
              (facetType \in DOMAIN merged.facets)
                  <=> (\E i \in Positions : Contributes(i, facetType))
        /\ DOMAIN merged.facets \subseteq FacetType
        /\ \A facetType \in DOMAIN merged.facets : Len(merged.facets[facetType]) > 0

\* A merge where one category is carried only as empty lists (so its key is
\* absent) and another category has content.
C3_Witness ==
    /\ pc = "merged"
    /\ \E facetType \in FacetType :
          /\ \E i \in Positions :
                facetType \in DOMAIN catalysts[i].facets /\ NFiles(i, facetType) = 0
          /\ facetType \notin DOMAIN merged.facets
    /\ DOMAIN merged.facets # {}

\* C4: catalystIds is the sequence of the input manifest ids: same length,
\* same order, duplicates kept, catalysts without content included.
C4_CatalystIdsAreInputIds ==
    pc = "merged" =>
        /\ Len(merged.catalystIds) = Len(catalysts)
        /\ \A k \in Positions : merged.catalystIds[k] = catalysts[k].manifest.id

\* A merge of a list that repeats an id and holds a catalyst without content.
C4_Witness ==
    /\ pc = "merged"
    /\ \E i, j \in Positions : i # j /\ catalysts[i].manifest.id = catalysts[j].manifest.id
    /\ \E i \in Positions : \A facetType \in FacetType : ~Contributes(i, facetType)
    /\ Len(merged.catalystIds) = 3

\* Number of merged items of a category that carry a source id.
ItemsFrom(id, facetType) ==
    Cardinality({ k \in 1..Len(MergedList(facetType)) : MergedList(facetType)[k].sourceId = id })

RECURSIVE SumItemsFrom(_, _)
SumItemsFrom(id, f) ==
    IF f = 0 THEN 0 ELSE SumItemsFrom(id, f - 1) + ItemsFrom(id, FACET_TYPES[f])

\* C5: every entry of contributions has contentCount equal to the number of
\* merged items of its id over all categories, and facetTypes lists, without
\* duplicates, exactly the categories where that id has a merged item.
C5_ContributionsMatchItems ==
    pc = "merged" =>
        \A e \in 1..Len(merged.contributions) :
            LET id == merged.contributions[e].key
                contrib == merged.contributions[e].value
            IN /\ contrib.contentCount = SumItemsFrom(id, Len(FACET_TYPES))
               /\ Range(contrib.facetTypes)
                     = { facetType \in FacetType : ItemsFrom(id, facetType) > 0 }
               /\ \A a, b \in 1..Len(contrib.facetTypes) :
                     contrib.facetTypes[a] = contrib.facetTypes[b] => a = b
               /\ \A d \in 1..Len(merged.contributions) :
                     merged.contributions[d].key = id => d = e

\* A merge where one id contributes from two positions to the same category
\* and to a second category as well.
C5_Witness ==
    /\ pc = "merged"
    /\ \E i, j \in Positions :
          /\ i < j
          /\ catalysts[i].manifest.id = catalysts[j].manifest.id
          /\ \E facetType \in FacetType : Contributes(i, facetType) /\ Contributes(j, facetType)
          /\ \E f, g \in FacetType : f # g /\ Contributes(i, f) /\ Contributes(j, g)
    /\ Len(merged.contributions) > 0

\* Number of occurrences of x in the list s.
CountIn(s, x) == Cardinality({ k \in 1..Len(s) : s[k] = x })

\* The two lists hold the same multiset of elements.
SameBag(s, t) ==
    /\ Len(s) = Len(t)
    /\ \A x \in Range(s) \cup Range(t) : CountIn(s, x) = CountIn(t, x)

\* The merge of the two catalysts of the input in the opposite order.
Swapped == mergeCatalysts(<< catalysts[2], catalysts[1] >>)

\* C6: merging [A, B] and merging [B, A] give, for every category, the same
\* multiset of attributed items (content, sourceId, filename).
C6_SwapKeepsMultiset ==
    (pc = "merged" /\ Len(catalysts) = 2) =>
        /\ DOMAIN Swapped.facets = DOMAIN merged.facets
        /\ \A facetType \in DOMAIN merged.facets :
              SameBag(merged.facets[facetType], Swapped.facets[facetType])

\* A merge of two different catalysts that share a category, where the order
\* of the merged list does depend on the input order.
C6_Witness ==
    /\ pc = "merged"
    /\ Len(catalysts) = 2
    /\ catalysts[1].manifest.id # catalysts[2].manifest.id
    /\ \E facetType \in DOMAIN merged.facets :
          /\ Contributes(1, facetType) /\ Contributes(2, facetType)
          /\ merged.facets[facetType] # Swapped.facets[facetType]

\* C7: on the empty list the merge has empty catalystIds, no facet key and no
\* contribution, every rendering of it is the empty string, and its summary
\* is exactly "No catalysts merged".
C7_EmptyInputEmptyOutput ==
    (catalysts = <<>> /\ pc # "loaded") =>
        /\ merged.catalystIds = <<>>
        /\ DOMAIN merged.facets = {}
        /\ Len(merged.contributions) = 0
        /\ pc = "renderFacet" => rendered = ""
        /\ pc = "renderAllFacets" => \A facetType \in FacetType : renderedAll[facetType] = ""
        /\ pc = "summarizeMerge" => summary = "No catalysts merged"

\* summarizeMerge has returned for the merge of the empty list.
C7_Witness ==
    /\ catalysts = <<>>
    /\ pc = "summarizeMerge"
    /\ summary # ""

\* The characters a..b of a text, empty when a > b.
Substring(text, a, b) == IF a > b THEN "" ELSE SubSeq(text, a, b)

StartsWith(text, prefix) ==
    Len(text) >= Len(prefix) /\ SubSeq(text, 1, Len(prefix)) = prefix

\* Positions of the newlines of a text.
NewlinesOf(text) == { i \in 1..Len(text) : SubSeq(text, i, i) = "\n" }

RECURSIVE SplitAt(_, _, _)
\* The lines of the text from character start on, cut at the given newlines.
SplitAt(text, start, newlines) ==
    IF newlines = {} THEN << Substring(text, start, Len(text)) >>
    ELSE LET first == CHOOSE i \in newlines : \A j \in newlines : i <= j
         IN << Substring(text, start, first - 1) >>
                \o SplitAt(text, first + 1, newlines \ { first })

\* The lines of a text, as text.split('\n') gives them.
LinesOf(text) == SplitAt(text, 1, NewlinesOf(text))

\* Item k starts a maximal run of items with the same sourceId.
RunStart(content, k) == k = 1 \/ content[k].sourceId # content[k - 1].sourceId

\* Number of runs that start at or before item k.
RunsUpTo(content, k) == Cardinality({ j \in 1..k : RunStart(content, j) })

\* The line of the output that holds item k: every item takes a line, every
\* run a header line, every run but the first a blank line.
LineOfItem(content, k) == k + 2 * RunsUpTo(content, k) - 1

\* C8: renderFacet of a category with content emits one "From <sourceId>:"
\* header per maximal run of items of one source, right before the first item
\* of the run, a blank line before every header but the first, and nothing
\* else but the items; the output starts with a header.
C8_OneHeaderPerRun ==
    (pc = "renderFacet" /\ renderedType \in DOMAIN merged.facets) =>
        LET content == merged.facets[renderedType]
            lines == LinesOf(rendered)
            n == Len(content)
        IN /\ Len(lines) = n + 2 * RunsUpTo(content, n) - 1
           /\ \A k \in 1..n :
                 /\ lines[LineOfItem(content, k)] = content[k].content
                 /\ RunStart(content, k) =>
                       /\ lines[LineOfItem(content, k) - 1]
                             = "From " \o content[k].sourceId \o ":"
                       /\ k > 1 => lines[LineOfItem(content, k) - 2] = ""
           /\ lines[1] = "From " \o content[1].sourceId \o ":"
           /\ lines[1] # ""

\* A rendering of a category whose items come from one id, then another, then
\* the first again, with a run of more than one item.
C8_Witness ==
    /\ pc = "renderFacet"
    /\ renderedType \in DOMAIN merged.facets
    /\ LET content == merged.facets[renderedType]
       IN /\ RunsUpTo(content, Len(content)) = 3
          /\ content[1].sourceId = content[Len(content)].sourceId
          /\ Len(content) > 3

\* C9: renderAllFacets returns a mapping with all six categories as keys, each
\* value the rendering of that category; a category absent from the merge maps
\* to the empty string.
C9_AllSixKeys ==
    pc = "renderAllFacets" =>
        /\ DOMAIN renderedAll = FacetType
        /\ Cardinality(DOMAIN renderedAll) = 6
        /\ \A facetType \in FacetType :
              /\ renderedAll[facetType] = renderFacet(merged, facetType)
              /\ facetType \notin DOMAIN merged.facets => renderedAll[facetType] = ""
              /\ facetType \in DOMAIN merged.facets => renderedAll[facetType] # ""

\* renderAllFacets has returned for a merge with some category present and
\* some category absent.
C9_Witness ==
    /\ pc = "renderAllFacets"
    /\ DOMAIN merged.facets # {}
    /\ DOMAIN merged.facets # FacetType
    /\ \E facetType \in DOMAIN renderedAll : renderedAll[facetType] = ""

\* The lines of the summary that open a block ("- <id>:").
BlockLines(lines) == { k \in 1..Len(lines) : StartsWith(lines[k], "- ") }

\* The ids of the input that contribute at least one item.
ContributingIds ==
    { catalysts[i].manifest.id :
        i \in { j \in Positions : \E facetType \in FacetType : Contributes(j, facetType) } }

\* Number of files the catalysts with an id hold over all categories.
RECURSIVE FilesOfId(_, _, _)
FilesOfId(id, i, f) ==
    IF i = 0 THEN 0
    ELSE IF f = 0 THEN FilesOfId(id, i - 1, Len(FACET_TYPES))
    ELSE FilesOfId(id, i, f - 1)
            + (IF catalysts[i].manifest.id = id THEN NFiles(i, FACET_TYPES[f]) ELSE 0)

\* The display names of the categories an id contributes to, in the order of
\* FACET_TYPES.
RECURSIVE FacetNamesOfId(_, _)
FacetNamesOfId(id, f) ==
    IF f = 0 THEN <<>>
    ELSE FacetNamesOfId(id, f - 1)
            \o (IF \E i \in Positions :
                      catalysts[i].manifest.id = id /\ Contributes(i, FACET_TYPES[f])
                THEN << formatFacetName(FACET_TYPES[f]) >> ELSE <<>>)

\* C10 as stated: the summary of a non-empty merge has a header stating the
\* length of catalystIds and one block per merged catalyst, so the number of
\* blocks equals the number in the header.
C10_BlocksEqualHeaderCount ==
    (pc = "summarizeMerge" /\ Len(merged.catalystIds) > 0) =>
        LET lines == LinesOf(summary)
        IN /\ lines[1] = "Merged " \o ToString(Len(merged.catalystIds)) \o " catalyst(s):"
           /\ Cardinality(BlockLines(lines)) = Len(merged.catalystIds)

\* C10 amended: the header states the length of catalystIds; a blank line
\* follows; then comes exactly one three-line block per distinct id that
\* contributed at least one item (and none for the others), giving that id's
\* category names and its total item count; so there are at most as many
\* blocks as the header states.
C10_OneBlockPerContributingId ==
    (pc = "summarizeMerge" /\ Len(merged.catalystIds) > 0) =>
        LET lines == LinesOf(summary)
        IN /\ lines[1] = "Merged " \o ToString(Len(merged.catalystIds)) \o " catalyst(s):"
           /\ lines[2] = ""
           /\ Len(lines) = 2 + 3 * Cardinality(ContributingIds)
           /\ Cardinality(BlockLines(lines)) = Cardinality(ContributingIds)
           /\ Cardinality(BlockLines(lines)) <= Len(merged.catalystIds)
           /\ \A id \in ContributingIds :
                 \E k \in BlockLines(lines) :
                     /\ lines[k] = "- " \o id \o ":"
                     /\ lines[k + 1] = "  - Facets: "
                            \o Join(FacetNamesOfId(id, Len(FACET_TYPES)), ", ")
                     /\ lines[k + 2] = "  - Content items: "
                            \o ToString(FilesOfId(id, Len(catalysts), Len(FACET_TYPES)))

\* A summary of three catalysts, two of them with the same id and one without
\* content: fewer blocks than the header states.
C10_Witness ==
    /\ pc = "summarizeMerge"
    /\ Len(merged.catalystIds) = 3
    /\ Cardinality(ContributingIds) = 1
    /\ Cardinality(BlockLines(LinesOf(summary))) = 1
    /\ \E i, j \in Positions :
          /\ i # j
          /\ catalysts[i].manifest.id = catalysts[j].manifest.id
          /\ catalysts[i].manifest.id \in ContributingIds

-----------------------------------------------------------------------------
\* Vocabulary of the properties of the loader, stated on the disk, on the
\* arguments of the call and on what the call came to.

IsLoad(op) == call.op = op /\ call # NoCall

\* The absolute path of each directoryPath of the model (the working directory
\* is /work).
AbsoluteOf(directoryPath) == IF directoryPath = "./a" THEN "/work/a" ELSE directoryPath

\* An absolute identifier passes through, a relative one lands under basePath.
ResolvedAgainst(basePath, identifier) ==
    IF StartsWith(identifier, "/") THEN identifier ELSE basePath \o "/" \o identifier

IsDirectoryOnDisk(path) == path \in DOMAIN disk /\ disk[path].kind = "directory"

IsFileOnDisk(path) == path \in DOMAIN disk /\ disk[path].kind = "file"

ManifestPathOf(root) == root \o "/catalyst.yml"

FacetDirectoryNames == { FACET_DIRECTORIES[k].dirName : k \in 1..Len(FACET_DIRECTORIES) }

\* The directory name of a category.
DirectoryNameOf(facetType) ==
    LET k == CHOOSE k \in 1..Len(FACET_DIRECTORIES) :
                 FACET_DIRECTORIES[k].facetKey = facetType
    IN  FACET_DIRECTORIES[k].dirName

\* The path is a facet directory of root or lies in one.
InFacetDirectory(path, root) ==
    \E name \in FacetDirectoryNames :
        \/ path = root \o "/" \o name
        \/ StartsWith(path, root \o "/" \o name \o "/")

\* The file-system calls of a log on a facet directory of root.
FacetReads(log, root) ==
    { k \in 1..Len(log) : log[k].op # "console.warn" /\ InFacetDirectory(log[k].arg, root) }

\* A string of the optional-@scope/ package-name shape: a name, or "@", a
\* scope, "/" and a name, scope and name being word characters and hyphens.
AllIn(s, a, b, class) == a <= b /\ \A i \in a..b : SubSeq(s, i, i) \in class

IsPackageName(s) ==
    \/ AllIn(s, 1, Len(s), NameChar)
    \/ /\ Len(s) >= 4
       /\ SubSeq(s, 1, 1) = "@"
       /\ \E slash \in 3..(Len(s) - 1) :
              /\ SubSeq(s, slash, slash) = "/"
              /\ AllIn(s, 2, slash - 1, NameChar)
              /\ AllIn(s, slash + 1, Len(s), NameChar)

\* MAJOR.MINOR.PATCH, each a run of digits.
IsCoreVersion(s) ==
    \E dot1 \in 2..Len(s), dot2 \in 4..Len(s) :
        /\ dot1 + 1 < dot2 /\ dot2 < Len(s)
        /\ SubSeq(s, dot1, dot1) = "." /\ SubSeq(s, dot2, dot2) = "."
        /\ AllIn(s, 1, dot1 - 1, Digit)
        /\ AllIn(s, dot1 + 1, dot2 - 1, Digit)
        /\ AllIn(s, dot2 + 1, Len(s), Digit)

\* MAJOR.MINOR.PATCH with an optional "-" and a prerelease of word characters
\* and dots.
IsVersion(s) ==
    \/ IsCoreVersion(s)
    \/ \E dash \in 6..(Len(s) - 1) :
           /\ SubSeq(s, dash, dash) = "-"
           /\ IsCoreVersion(SubSeq(s, 1, dash - 1))
           /\ AllIn(s, dash + 1, Len(s), PrereleaseChar)

IsNonEmptyString(v) == v.type = "string" /\ Len(v.value) >= 1

\* The rules of a manifest but for its facets.
MeetsFieldRules(parsed) ==
    /\ parsed.type = "object"
    /\ parsed.id.type = "string" /\ IsPackageName(parsed.id.value)
    /\ IsNonEmptyString(parsed.name)
    /\ IsNonEmptyString(parsed.description)
    /\ parsed.version.type = "string" /\ IsVersion(parsed.version.value)

\* facets, when present, is a mapping whose values under the given keys are
\* boolean.
BooleanUnder(facets, keys) ==
    \/ facets.type = "undefined"
    \/ /\ facets.type = "object"
       /\ \A key \in keys : facets.decl[key].type \in { "undefined", "boolean" }

\* The rules of CatalystManifest: the six categories of a declaration, when
\* present, are boolean.
MeetsManifestRules(parsed) ==
    MeetsFieldRules(parsed) /\ BooleanUnder(parsed.facets, FacetType)

\* The regular files of a directory whose name ends with ".md", in listing
\* order, as FacetContent.
IsMarkdownEntry(dir, name) ==
    /\ IsFileOnDisk(dir \o "/" \o name)
    /\ Len(name) >= 3
    /\ SubSeq(name, Len(name) - 2, Len(name)) = ".md"

MarkdownContent(dir) ==
    LET names == SelectSeq(disk[dir].listing, LAMBDA name : IsMarkdownEntry(dir, name))
    IN  [ k \in 1..Len(names) |->
            [ filename |-> names[k], content |-> disk[dir \o "/" \o names[k]].text ] ]

\* The paths resolveCatalysts is to load, in input order.
PathsToLoad ==
    [ k \in 1..Len(call.identifiers) |->
        ResolvedAgainst(call.basePath, call.identifiers[k]) ]

\* What loadCatalyst comes to for the k-th identifier.
LoadOf(k) == loadCatalyst(disk, PathsToLoad[k], call.options)

FailingPositions == { k \in 1..Len(call.identifiers) : LoadOf(k).threw }

FirstFailing == CHOOSE k \in FailingPositions : \A j \in FailingPositions : k <= j

\* The load attempts of a log: each loadCatalyst starts with the stat of the
\* directory it is to load.
Attempts(log) ==
    SelectSeq(log, LAMBDA entry : entry.op = "stat" /\ entry.arg \in Range(PathsToLoad))

-----------------------------------------------------------------------------
\* C11: loadCatalyst fails with "Catalyst directory not found" when the
\* resolved path is no existing directory (whatever may be said of the
\* manifest), with "Catalyst manifest not found" when the directory has no
\* catalyst.yml, and with "Invalid catalyst manifest" when catalyst.yml is
\* there and violates the schema; in each of these cases no Catalyst is
\* returned and no facet directory is read.
C11_Message ==
    LET root == AbsoluteOf(call.directoryPath)
        manifest == disk[ManifestPathOf(root)]
    IN  IF ~ IsDirectoryOnDisk(root) THEN "Catalyst directory not found"
        ELSE IF ManifestPathOf(root) \notin DOMAIN disk THEN "Catalyst manifest not found"
        ELSE IF manifest.yaml.parses /\ ~ MeetsManifestRules(manifest.yaml.parsed)
        THEN "Invalid catalyst manifest"
        ELSE ""

C12_FacetsAreMarkdownFiles ==
    IsLoad("loadCatalyst") /\ ~ outcome.threw =>
        LET catalyst == outcome.value[1]
            root == AbsoluteOf(call.directoryPath)
        IN  \A facetType \in FacetType :
                LET dir == root \o "/" \o DirectoryNameOf(facetType)
                    present == IsDirectoryOnDisk(dir) /\ Len(MarkdownContent(dir)) > 0
                IN  /\ facetType \in DOMAIN catalyst.facets <=> present
                    /\ present =>
                          /\ catalyst.facets[facetType] = MarkdownContent(dir)
                          /\ Len(catalyst.facets[facetType]) > 0

C12_Witness ==
    /\ IsLoad("loadCatalyst")
    /\ ~ outcome.threw
    /\ call.directoryPath = "./a"
    /\ "/work/a/questions/sub.md" \in DOMAIN disk
    /\ IsFileOnDisk("/work/a/validation-rules")
    /\ DOMAIN outcome.value[1].facets = { "questions" }
    /\ Len(outcome.value[1].facets["questions"]) = 2

C15_LoadedInInputOrder ==
    IsLoad("resolveCatalysts") /\ FailingPositions = {} =>
        /\ ~ outcome.threw
        /\ Len(outcome.value[1]) = Len(call.identifiers)
        /\ \A k \in 1..Len(call.identifiers) :
              /\ outcome.value[1][k] = LoadOf(k).value[1]
              /\ outcome.value[1][k].directoryPath = PathsToLoad[k]
        /\ Len(call.identifiers) = 0 => outcome.value[1] = << >>

C15_Witness ==
    /\ IsLoad("resolveCatalysts")
    /\ ~ outcome.threw
    /\ call.identifiers = << "b", "a" >>
    /\ outcome.value[1][1].manifest.id = "b"
    /\ outcome.value[1][2].manifest.id = "@test/a"
    /\ DOMAIN outcome.value[1][2].facets = { "questions" }

\* C16 as stated: CatalystManifestSchema accepts a manifest exactly when id has
\* the package-name shape, name and description are non-empty strings, version
\* has the version shape, and every value of facets, when present, is boolean.
C16_AcceptsIffOnlyBooleans ==
    validated =>
        (parseResult.success <=>
            MeetsFieldRules(document) /\ BooleanUnder(document.facets, FacetType \cup { UnknownKey }))

\* C16: CatalystManifestSchema accepts a manifest exactly when id has the
\* package-name shape, name and description are non-empty strings, version has
\* the version shape, and each of the six categories of facets, when present,
\* is boolean (a key the schema does not know is not looked at and is left out
\* of the result); '@scope/valid-name' and '1.0.0-dev.0' are accepted,
\* '@invalid//package', 'my catalyst', 'v1.0.0' and an empty name or
\* description are rejected.
C16_AcceptsIffKnownKeysBoolean ==
    validated =>
        /\ parseResult.success <=> MeetsManifestRules(document)
        /\ parseResult.success =>
              /\ parseResult.data[1].id = document.id.value
              /\ parseResult.data[1].version = document.version.value
              /\ DOMAIN parseResult.data[1].facets.decl = FacetType
        /\ document.id \in { JsString("@invalid//package"), JsString("my catalyst") }
              => ~ parseResult.success
        /\ document.version = JsString("v1.0.0") => ~ parseResult.success
        /\ document.name = JsString("") \/ document.description = JsString("")
              => ~ parseResult.success
        /\ ( /\ document.type = "object"
             /\ document.id = JsString("@scope/valid-name")
             /\ document.version = JsString("1.0.0-dev.0")
             /\ IsNonEmptyString(document.name)
             /\ IsNonEmptyString(document.description)
             /\ document.facets = FacetsAbsent )
              => parseResult.success

C16_Witness ==
    /\ validated
    /\ parseResult.success
    /\ document.id = JsString("@scope/valid-name")
    /\ document.version = JsString("1.0.0-dev.0")
    /\ document.facets.type = "object"
    /\ document.facets.decl["questions"] = JsBoolean(FALSE)
    /\ document.facets.decl[UnknownKey] = JsString("text")

-----------------------------------------------------------------------------
\* Vocabulary of the properties of the plan manifest.

PlanKey == { "id", "title", "catalysts", "created", "metadata" }

\* The rules of a plan manifest: id and title non-empty strings, catalysts a
\* list if there, created a string if there, metadata a mapping if there.
MeetsPlanRules(parsed) ==
    /\ parsed.type = "object"
    /\ IsNonEmptyString(parsed.id)
    /\ IsNonEmptyString(parsed.title)
    /\ parsed.catalysts.type \in { "undefined", "array" }
    /\ parsed.created.type \in { "undefined", "string" }
    /\ parsed.metadata.type \in { "undefined", "object" }

\* The manifest that the entries of a text make, key by key.
HoldsEntriesOf(manifest, text) ==
    /\ manifest.type = "object"
    /\ \A key \in PlanKey :
          IF \E k \in 1..Len(text.entries) : text.entries[k].key = key
          THEN \E k \in 1..Len(text.entries) :
                  text.entries[k].key = key /\ text.entries[k].value = manifest[key]
          ELSE manifest[key].type = "undefined"

\* The text of plan.yaml as an object, whether it meets the rules or not.
ObjectOfText(text) ==
    IF Len(text.entries) = 0 THEN NullPlan
    ELSE [ key \in PlanKey \cup { "type" } |->
             IF key = "type" THEN "object"
             ELSE IF \E k \in 1..Len(text.entries) : text.entries[k].key = key
             THEN text.entries[CHOOSE k \in 1..Len(text.entries) :
                                   text.entries[k].key = key].value
             ELSE JsUndefined ]

\* plan.yaml is there, is YAML, and breaks a rule of the plan manifest.
ViolatesPlanRules(file) ==
    /\ file.exists
    /\ file.text.parses
    /\ \/ Len(file.text.entries) = 0
       \/ ~ IsNonEmptyString(ObjectOfText(file.text).id)
       \/ ~ IsNonEmptyString(ObjectOfText(file.text).title)
       \/ ObjectOfText(file.text).catalysts.type \notin { "undefined", "array" }
       \/ ObjectOfText(file.text).created.type \notin { "undefined", "string" }
       \/ ObjectOfText(file.text).metadata.type \notin { "undefined", "object" }

ReturnedNull(returned) == ~ returned.threw /\ ValueOf(returned).type = "null"

\* C17: readPlanManifest returns null, without failing, when plan.yaml is
\* absent; fails with an 'Invalid plan manifest' error when plan.yaml is there
\* (and is YAML) but violates the schema; otherwise returns the manifest the
\* file holds. A file that is there never reads as null, and an absent one
\* never fails.
C17_ReadTellsAbsentFromInvalid ==
    planCall.op = "readPlanManifest" =>
        /\ (~ planFile.exists => ReturnedNull(planOutcome))
        /\ (ViolatesPlanRules(planFile) =>
                /\ planOutcome.threw
                /\ StartsWith(planOutcome.message, "Invalid plan manifest"))
        /\ ((planFile.exists /\ planFile.text.parses /\ ~ ViolatesPlanRules(planFile)) =>
                /\ ~ planOutcome.threw
                /\ HoldsEntriesOf(ValueOf(planOutcome), planFile.text))
        /\ (planFile.exists => ~ ReturnedNull(planOutcome))

\* A plan.yaml with a title and no id was read, and the read failed.
C17_Witness ==
    /\ planCall.op = "readPlanManifest"
    /\ ViolatesPlanRules(planFile)
    /\ Len(planFile.text.entries) = 1
    /\ planOutcome.threw
    /\ planOutcome.message = "Invalid plan manifest: id: Required"

\* What the manifest m reads back as (read), as the round trip is to keep it.
ReadsBackAs(m, read) ==
    /\ ~ read.threw
    /\ ValueOf(read).type = "object"
    /\ ValueOf(read).id = m.id
    /\ ValueOf(read).title = m.title
    /\ ValueOf(read).catalysts = m.catalysts
    /\ ValueOf(read).metadata = m.metadata
    /\ (m.created.type # "undefined" => ValueOf(read).created = m.created)
    /\ (m.created.type = "undefined" => ValueOf(read).created.type = "string")

\* C18: for every schema-valid manifest m, writePlanManifest(dir, m) followed
\* by readPlanManifest(dir) returns a manifest with the same id, title,
\* catalysts (same order), metadata and, when m.created is given, the same
\* created; when m.created is absent the manifest read has a created string.
C18_WriteThenReadKeepsFields ==
    (planCall.op = "writePlanManifest" /\ MeetsPlanRules(planCall.manifest)) =>
        ReadsBackAs(planCall.manifest, readPlanManifest(planFile))

\* The manifest after an update, against the one before and the updates.
ChangedExactly(updates, before, after) ==
    /\ ~ after.threw
    /\ \A key \in PlanKey :
          IF key \in updates.keys
          THEN ValueOf(after)[key] = updates.value[key]
          ELSE ValueOf(after)[key] = ValueOf(before)[key]

\* plan.yaml holds a manifest that meets the rules.
HoldsManifest(file) == file.exists /\ file.text.parses /\ ~ ViolatesPlanRules(file)

\* C19: updatePlanManifest on an existing manifest changes exactly the
\* top-level fields named in updates (each replaced wholesale, metadata
\* included) and leaves every other field, created included, with its previous
\* value, in every update of a sequence.
C19_UpdateChangesNamedFieldsOnly ==
    [][ (planCall'.op = "updatePlanManifest" /\ HoldsManifest(planFile)
            /\ ~ planOutcome'.threw) =>
            ChangedExactly(planCall'.updates, readPlanManifest(planFile),
                           readPlanManifest(planFile')) ]_vars

NoDuplicates(list) ==
    \A i, j \in 1..Len(list) : list[i] = list[j] => i = j

ListOf(read) ==
    IF ValueOf(read).catalysts.type = "array" THEN ValueOf(read).catalysts.items
    ELSE << >>

\* The manifest after addCatalystToManifest(dir, catalystId), against before.
AddedAtEnd(catalystId, before, after) ==
    /\ ~ after.threw
    /\ ValueOf(after).catalysts.type = "array"
    /\ ListOf(after) = IF \E k \in 1..Len(ListOf(before)) : ListOf(before)[k] = catalystId
                       THEN ListOf(before)
                       ELSE ListOf(before) \o << catalystId >>
    /\ (NoDuplicates(ListOf(before)) => NoDuplicates(ListOf(after)))
    /\ ValueOf(after).id = ValueOf(before).id
    /\ ValueOf(after).title = ValueOf(before).title
    /\ ValueOf(after).created = ValueOf(before).created
    /\ ValueOf(after).metadata = ValueOf(before).metadata

\* C20: addCatalystToManifest on an existing manifest appends the id at the
\* end of catalysts when the list does not hold it (making the list if there
\* is none) and leaves the list as it is when it does; a list without
\* duplicates stays without duplicates through add and remove; no other field
\* changes.
C20_AddAppendsOnceAndKeepsTheRest ==
    [][ /\ (planCall'.op = "addCatalystToManifest" /\ HoldsManifest(planFile)) =>
              /\ ~ planOutcome'.threw
              /\ AddedAtEnd(planCall'.catalystId, readPlanManifest(planFile),
                            readPlanManifest(planFile'))
        /\ (planCall'.op = "removeCatalystFromManifest" /\ HoldsManifest(planFile)
               /\ NoDuplicates(ListOf(readPlanManifest(planFile)))) =>
              NoDuplicates(ListOf(readPlanManifest(planFile'))) ]_vars

RECURSIVE Without(_, _)
\* The list without the id, the others in their order.
Without(list, id) ==
    IF Len(list) = 0 THEN << >>
    ELSE (IF Head(list) = id THEN << >> ELSE << Head(list) >>) \o Without(Tail(list), id)

Wrote(returned) ==
    \E k \in 1..Len(returned.log) : returned.log[k].op = "writeFile"

\* The manifest after removeCatalystFromManifest(dir, catalystId), against the
\* list before.
RemovedFrom(list, catalystId, after) ==
    /\ ~ after.threw
    /\ ListOf(after) = Without(list, catalystId)
    /\ ValueOf(after).catalysts.type =
           IF Len(Without(list, catalystId)) = 0 THEN "undefined" ELSE "array"

-----------------------------------------------------------------------------
\* Warnings of the loader.

\* Two outcomes of loadCatalyst agree: both fail with one message, or both
\* return the same manifest, facets and directoryPath.
SameOutcome(a, b) ==
    /\ a.threw = b.threw
    /\ a.message = b.message
    /\ a.value = b.value

\* Two outcomes of loadCatalyst agree but for the declaration of the manifest.
SameButDeclaration(a, b) ==
    /\ a.threw = b.threw
    /\ a.message = b.message
    /\ ~ a.threw =>
          /\ a.value[1].facets = b.value[1].facets
          /\ a.value[1].directoryPath = b.value[1].directoryPath
          /\ [ a.value[1].manifest EXCEPT !.facets = FacetsAbsent ]
                = [ b.value[1].manifest EXCEPT !.facets = FacetsAbsent ]

\* The declarations a manifest may make of "questions" and "validationRules".
BooleanDeclarations ==
    { FacetsAbsent }
        \cup { FacetsObject([ NoDeclaration EXCEPT !["questions"] = q,
                                                   !["validationRules"] = v ]) :
                 q, v \in { JsUndefined, JsBoolean(TRUE), JsBoolean(FALSE) } }

\* The disk with the declaration of the catalyst at root replaced; a disk
\* without a manifest there that meets the rules is left as it is.
Redeclared(root, facets) ==
    IF /\ ManifestPathOf(root) \in DOMAIN disk
       /\ disk[ManifestPathOf(root)].yaml.parses
       /\ MeetsManifestRules(disk[ManifestPathOf(root)].yaml.parsed)
    THEN [ disk EXCEPT ![ManifestPathOf(root)].yaml.parsed.facets = facets ]
    ELSE disk

ConsoleWarns(log) == { k \in 1..Len(log) : log[k].op = "console.warn" }

Loaded == IsLoad("loadCatalyst") /\ ~ outcome.threw

FacetTypes == { FACET_DIRECTORIES[k].facetKey : k \in 1..Len(FACET_DIRECTORIES) }

\* What the manifest of the returned catalyst declares of a category.
DeclaredAs(facetType) ==
    IF ValueOf(outcome).manifest.facets.type = "object"
    THEN ValueOf(outcome).manifest.facets.decl[facetType]
    ELSE JsUndefined

\* The warnings the load produced, whether logged or not.
ProducedWarnings ==
    Range(loadFacets(disk, AbsoluteOf(call.directoryPath),
                     ValueOf(outcome).manifest, call.options).warnings)

FacetPathOf(facetType) ==
    AbsoluteOf(call.directoryPath) \o "/" \o DirectoryNameOf(facetType)

MissingFacetWarning(facetType) ==
    "Facet '" \o facetType \o "' is declared in manifest but directory '"
        \o DirectoryNameOf(facetType) \o "' not found"

UndeclaredFacetWarning(facetType) ==
    "Facet '" \o facetType \o "' is present but declared as false in manifest"

\* The directory is absent, or holds no markdown file.
YieldsNoContent(dir) ==
    IsDirectoryOnDisk(dir) => Len(MarkdownContent(dir)) = 0

\* C23 as stated: with warnOnMissingFacets set, a missing-facet warning is
\* produced for a category exactly when the manifest declares it true and its
\* directory is absent or yields no content.
C23_WarnsWhenDeclaredAndAbsentOrEmpty ==
    Loaded =>
        \A facetType \in FacetTypes :
            MissingFacetWarning(facetType) \in ProducedWarnings
                <=> /\ call.options.warnOnMissingFacets
                    /\ DeclaredAs(facetType) = JsBoolean(TRUE)
                    /\ YieldsNoContent(FacetPathOf(facetType))

\* C23 amended: a load that succeeds produces a missing-facet warning for a
\* category exactly when warnOnMissingFacets is set, the manifest declares the
\* category true and no directory exists at the category's path; a directory
\* that exists and yields no content gives no such warning.
C23_WarnsWhenDeclaredAndNoDirectory ==
    Loaded =>
        \A facetType \in FacetTypes :
            MissingFacetWarning(facetType) \in ProducedWarnings
                <=> /\ call.options.warnOnMissingFacets
                    /\ DeclaredAs(facetType) = JsBoolean(TRUE)
                    /\ ~ IsDirectoryOnDisk(FacetPathOf(facetType))

C23_Witness ==
    /\ Loaded
    /\ call.options.warnOnMissingFacets
    /\ DeclaredAs("questions") = JsBoolean(TRUE)
    /\ ~ IsDirectoryOnDisk(FacetPathOf("questions"))
    /\ MissingFacetWarning("questions") \in ProducedWarnings

\* C24 as stated: with warnOnUndeclaredFacets set, an undeclared-facet warning
\* is produced for a category exactly when the manifest declares it false and
\* content was found for it.
C24_WarnsWhenDeclaredFalseAndContentFound ==
    Loaded =>
        \A facetType \in FacetTypes :
            UndeclaredFacetWarning(facetType) \in ProducedWarnings
                <=> /\ call.options.warnOnUndeclaredFacets
                    /\ DeclaredAs(facetType) = JsBoolean(FALSE)
                    /\ ~ YieldsNoContent(FacetPathOf(facetType))

\* C24 amended: a load that succeeds produces an undeclared-facet warning for
\* a category exactly when warnOnUndeclaredFacets is set, the manifest declares
\* the category false and the category's directory exists, whether or not any
\* content was found in it.
C24_WarnsWhenDeclaredFalseAndDirectoryExists ==
    Loaded =>
        \A facetType \in FacetTypes :
            UndeclaredFacetWarning(facetType) \in ProducedWarnings
                <=> /\ call.options.warnOnUndeclaredFacets
                    /\ DeclaredAs(facetType) = JsBoolean(FALSE)
                    /\ IsDirectoryOnDisk(FacetPathOf(facetType))

C24_Witness ==
    /\ Loaded
    /\ call.options.warnOnUndeclaredFacets
    /\ DeclaredAs("questions") = JsBoolean(FALSE)
    /\ IsDirectoryOnDisk(FacetPathOf("questions"))
    /\ Len(MarkdownContent(FacetPathOf("questions"))) = 0
    /\ UndeclaredFacetWarning("questions") \in ProducedWarnings

\* What a call wrote to console.warn, in order.
Emitted(returned) ==
    LET warned == SelectSeq(returned.log, LAMBDA entry : entry.op = "console.warn")
    IN  [ k \in 1..Len(warned) |-> warned[k].arg ]

\* The warnings loadFacets produces for the catalyst of a disk, each as
\* loadCatalyst writes it.
Prefixed(warnings) ==
    [ k \in 1..Len(warnings) |-> "[catalyst-loader] " \o warnings[k] ]

\* loadCatalyst run on a disk agrees with strict: nothing is emitted with
\* strict set; the outcome is the one of the run with strict the other way;
\* and a run that succeeds with strict unset emits the produced warnings, each
\* once, in the order produced.
EmitsByStrict(fs, directoryPath, options) ==
    /\ options.strict => Emitted(loadCatalyst(fs, directoryPath, options)) = << >>
    /\ SameOutcome(loadCatalyst(fs, directoryPath, options),
                   loadCatalyst(fs, directoryPath,
                                [ options EXCEPT !.strict = ~ options.strict ]))
    /\ (~ options.strict /\ ~ loadCatalyst(fs, directoryPath, options).threw)
          => Emitted(loadCatalyst(fs, directoryPath, options))
               = Prefixed(loadFacets(fs, AbsoluteOf(directoryPath),
                              ValueOf(loadCatalyst(fs, directoryPath, options)).manifest,
                              options).warnings)

-----------------------------------------------------------------------------
\* Order of the contributions.

\* mergeCatalysts has run on the input list.
Merged == pc \in { "merged", "renderFacet", "renderAllFacets", "summarizeMerge" }

\* The ids contributions holds, in iteration order.
ContributionKeys ==
    [ e \in 1..Len(merged.contributions) |-> merged.contributions[e].key ]

\* The first position of an id in catalystIds.
FirstOccurrence(id) ==
    CHOOSE i \in 1..Len(merged.catalystIds) :
        /\ merged.catalystIds[i] = id
        /\ \A j \in 1..(i - 1) : merged.catalystIds[j] # id

\* The place at which an id first contributes when the categories are walked
\* in the order of FACET_TYPES and, within a category, the input in order.
FirstContribution(id) ==
    LET places == { (f - 1) * Len(catalysts) + i :
                      f \in { g \in 1..Len(FACET_TYPES) :
                                \E j \in Positions :
                                    /\ catalysts[j].manifest.id = id
                                    /\ Contributes(j, FACET_TYPES[g]) },
                      i \in Positions }
        taken == { p \in places :
                     LET f == ((p - 1) \div Len(catalysts)) + 1
                         i == ((p - 1) % Len(catalysts)) + 1
                     IN  /\ catalysts[i].manifest.id = id
                         /\ Contributes(i, FACET_TYPES[f]) }
    IN  CHOOSE p \in taken : \A q \in taken : p <= q

\* contributions has one key for each id that contributed and no other.
KeysAreContributingIds ==
    /\ Range(ContributionKeys) = ContributingIds
    /\ Len(ContributionKeys) = Cardinality(ContributingIds)

\* The blocks of the summary name the keys of contributions, in its order.
BlocksFollowContributions ==
    (pc = "summarizeMerge" /\ Len(merged.catalystIds) > 0) =>
        /\ Len(LinesOf(summary)) = 2 + 3 * Len(ContributionKeys)
        /\ \A e \in 1..Len(ContributionKeys) :
              LinesOf(summary)[3 * e] = "- " \o ContributionKeys[e] \o ":"

-----------------------------------------------------------------------------
\* plan.yaml stays absent or valid.

\* plan.yaml is not there, or is YAML that meets the rules of the schema.
AbsentOrValid(file) ==
    file.exists => (file.text.parses /\ MeetsPlanRules(ObjectOfText(file.text)))

FailedValidation(returned) ==
    returned.threw /\ StartsWith(returned.message, "Invalid plan manifest")

\* C29: from a plan.yaml that is absent or meets the rules of the schema,
\* every call of writePlanManifest, updatePlanManifest, addCatalystToManifest
\* and removeCatalystFromManifest leaves a plan.yaml that is absent or meets
\* the rules (id and title non-empty), so the same holds after any sequence
\* of calls; and a call that fails, on validation or otherwise, has written
\* nothing and leaves plan.yaml exactly as it was.
C29_FileStaysAbsentOrValid ==
    [][ /\ AbsentOrValid(planFile) => AbsentOrValid(planFile')
        /\ planOutcome'.threw => (planFile' = planFile /\ ~ Wrote(planOutcome')) ]_vars

\* An update of a valid plan.yaml has failed validation; the file is valid.
C29_Witness ==
    /\ planCall.op = "updatePlanManifest"
    /\ "id" \in planCall.updates.keys
    /\ FailedValidation(planOutcome)
    /\ ~ Wrote(planOutcome)
    /\ HoldsManifest(planFile)

CannotCreate(returned) ==
    /\ returned.threw
    /\ returned.message = "Cannot create manifest without id and title"
    /\ ~ Wrote(returned)

\* C30: no plan manifest is created without an id and a title. With plan.yaml
\* absent, updatePlanManifest with updates lacking id or title, and
\* addCatalystToManifest, fail with 'Cannot create manifest without id and
\* title' and create no file; removeCatalystFromManifest does nothing and does
\* not fail; and whatever call creates plan.yaml leaves one with a non-empty
\* id and title.
C30_NothingCreatedWithoutIdAndTitle ==
    [][ ~ planFile.exists =>
          /\ (/\ planCall'.op = "updatePlanManifest"
               /\ \/ ~ Truthy(planCall'.updates.value.id)
                  \/ ~ Truthy(planCall'.updates.value.title))
                => (CannotCreate(planOutcome') /\ ~ planFile'.exists)
          /\ planCall'.op = "addCatalystToManifest"
                => (CannotCreate(planOutcome') /\ ~ planFile'.exists)
          /\ planCall'.op = "removeCatalystFromManifest"
                => /\ ~ planOutcome'.threw
                   /\ ~ Wrote(planOutcome')
                   /\ ~ planFile'.exists
          /\ planFile'.exists
                => /\ HoldsManifest(planFile')
                   /\ IsNonEmptyString(ObjectOfText(planFile'.text).id)
                   /\ IsNonEmptyString(ObjectOfText(planFile'.text).title) ]_vars

\* addCatalystToManifest has failed on an absent plan.yaml, which is still
\* absent.
C30_Witness ==
    /\ planCall.op = "addCatalystToManifest"
    /\ CannotCreate(planOutcome)
    /\ ~ planFile.exists

-----------------------------------------------------------------------------
\* Reads of a facet directory completing in any order.

\* The load of the directory is over: the facet is stored or the load failed.
ReadsOver == readPc \in { "loaded", "failed" }

\* The contents of the entries, in listing order.
ListedContents ==
    [ k \in 1..Len(facetEntries) |->
        [ filename |-> facetEntries[k].name, content |-> "# " \o facetEntries[k].name ] ]

AllReadable == \A k \in 1..Len(facetEntries) : facetEntries[k].result = "text"

\* With every file readable the list stored is the listing, in its order,
\* whatever the order in which the reads completed.
StoredInListingOrder ==
    (ReadsOver /\ AllReadable) =>
        /\ readPc = "loaded"
        /\ IF Len(facetEntries) = 0 THEN facetsStored = << >>
           ELSE facetsStored = ("questions" :> ListedContents)

\* Nothing is stored of a directory one of whose reads fails.
NothingStoredOnFailure ==
    (ReadsOver /\ ~ AllReadable) => facetsStored = << >>

\* C26: the reads of the files of one facet directory completing in any
\* order, the list stored for the category is in listing order; and when any
\* one read fails the load fails and no partial list is stored.
C26_ListingOrderOrFailure ==
    /\ StoredInListingOrder
    /\ NothingStoredOnFailure
    /\ (ReadsOver /\ ~ AllReadable) => readPc = "failed"

\* C27: two addCatalystToManifest calls for different ids on one plan
\* directory, their reads and writes interleaved in any way, both returned
\* without failing: the catalysts of plan.yaml hold both ids.
C27_NoAddIsLost ==
    (\A p \in DOMAIN adders : adders[p].pc = "done" /\ ~ adders[p].outcome.threw) =>
        \A p \in DOMAIN adders :
            \E k \in 1..Len(ListOf(readPlanManifest(racePlan))) :
                ListOf(readPlanManifest(racePlan))[k] = adders[p].catalystId

====
